---------------------------- MODULE Spec2Model ----------------------------
(***************************************************************************)
(* BigDeckAI: the deck-list parser and the Commander format validator of   *)
(* src/src/ui/messages.js.                                                 *)
(*                                                                         *)
(* A JavaScript string is modelled as a sequence of one-character strings, *)
(* so that trim, toLowerCase, includes, startsWith, split and the regular  *)
(* expressions of the parser are computed character by character.          *)
(***************************************************************************)
EXTENDS Integers, Sequences, FiniteSets, TLC

VARIABLES
  pc,        \* the call that produced the current state
  deckText,  \* argument of parseDeckList / validateDeckList
  options,   \* the options argument of the last validation call
  deck,      \* the parsed deck the caller started from
  cards,     \* the caller's current card list
  prev,      \* the list the caller held before the last call that replaced it
  formatted, \* the text returned by formatDeckList
  calls,     \* number of removeDuplicates calls made so far
  result,    \* the value returned by the last validation call
  given,     \* the deck records as the caller built them
  decks,     \* the same records after the calls made on them
  patterns,  \* the value returned by analyzeUserPatterns
  recommendations,  \* the list returned by ProfileAnalyzer.generateRecommendations
  userHistory,      \* RecommendationEngine.userHistory
  historyBefore,    \* userHistory as it was when the last engine call began
  metaDecks,        \* the meta-deck records handed to MetaAnalyzer
  network,          \* the state of the network collaborators
  knowledgeBase,    \* YouTubeLearner.knowledgeBase
  knowledgeBefore,  \* knowledgeBase as it was when the last learner call began
  instance,         \* the integration instance whose requests are paced
  now,              \* Date.now()
  lastRequestTime,  \* this.lastRequestTime of the instance
  sleeping,         \* the request calls waiting in waitForRateLimit, with their timers
  issued            \* the times at which the instance's requests went out

parserVars == <<deckText, options, deck, cards, prev, formatted, calls>>
profileVars == <<given, decks, patterns, recommendations>>
historyVars == <<userHistory, historyBefore>>
metaVars == <<metaDecks>>
networkVars == <<network>>
learnerVars == <<knowledgeBase, knowledgeBefore>>
limiterVars == <<instance, now, lastRequestTime, sleeping, issued>>
analyzerVars == <<profileVars, historyVars, metaVars, networkVars, learnerVars, limiterVars>>

vars == <<pc, result, parserVars, analyzerVars>>

(***************************************************************************)
(* Characters and strings                                                  *)
(***************************************************************************)
UpperChars == <<"A","B","C","D","E","F","G","H","I","J","K","L","M","N","O","P","Q","R","S","T","U","V","W","X","Y","Z">>
LowerChars == <<"a","b","c","d","e","f","g","h","i","j","k","l","m","n","o","p","q","r","s","t","u","v","w","x","y","z">>

Digits == <<"0","1","2","3","4","5","6","7","8","9">>

DigitSet == { Digits[i] : i \in 1..Len(Digits) }

\* /\d/
IsDigit(c) == c \in DigitSet

\* The characters String.prototype.trim strips and /\s/ matches.
IsWhiteSpace(c) == c \in {" ", "\t", "\r", "\n"}

\* The characters the regular expression dot does not match.
IsLineTerminator(c) == c \in {"\n", "\r"}

UpperSet == { UpperChars[i] : i \in 1..Len(UpperChars) }

LowerOf ==
  [c \in UpperSet |-> LowerChars[CHOOSE i \in 1..Len(UpperChars) : UpperChars[i] = c]]

ToLowerChar(c) == IF c \in UpperSet THEN LowerOf[c] ELSE c

toLowerCase(s) == [i \in 1..Len(s) |-> ToLowerChar(s[i])]

RECURSIVE trimStart(_)
trimStart(s) ==
  IF s = <<>> THEN s
  ELSE IF IsWhiteSpace(s[1]) THEN trimStart(Tail(s)) ELSE s

RECURSIVE trimEnd(_)
trimEnd(s) ==
  IF s = <<>> THEN s
  ELSE IF IsWhiteSpace(s[Len(s)]) THEN trimEnd(SubSeq(s, 1, Len(s) - 1)) ELSE s

trim(s) == trimEnd(trimStart(s))

startsWith(s, w) == Len(s) >= Len(w) /\ SubSeq(s, 1, Len(w)) = w

includes(s, w) ==
  \E i \in 0..(Len(s) - Len(w)) : SubSeq(s, i + 1, i + Len(w)) = w

\* deckText.split('\n')
RECURSIVE split(_)
split(s) ==
  IF \E i \in 1..Len(s) : s[i] = "\n"
  THEN LET i == CHOOSE k \in 1..Len(s) :
                  s[k] = "\n" /\ \A j \in 1..(k - 1) : s[j] # "\n"
       IN  <<SubSeq(s, 1, i - 1)>> \o split(SubSeq(s, i + 1, Len(s)))
  ELSE <<s>>

\* parseInt(ds, 10) of a non-empty string of decimal digits
\* lines.join('\n')
RECURSIVE Join(_)
Join(ls) ==
  IF Len(ls) = 0 THEN <<>>
  ELSE IF Len(ls) = 1 THEN ls[1]
  ELSE ls[1] \o <<"\n">> \o Join(Tail(ls))

RECURSIVE parseInt(_)
parseInt(ds) ==
  IF ds = <<>> THEN 0
  ELSE 10 * parseInt(SubSeq(ds, 1, Len(ds) - 1))
       + ((CHOOSE i \in 1..Len(Digits) : Digits[i] = ds[Len(ds)]) - 1)

(***************************************************************************)
(* parseDeckList                                                           *)
(***************************************************************************)
CATEGORY_WORDS ==
  << <<"c","o","m","m","a","n","d","e","r">>,
     <<"c","r","e","a","t","u","r","e","s">>,
     <<"l","a","n","d","s">>,
     <<"a","r","t","i","f","a","c","t","s">>,
     <<"e","n","c","h","a","n","t","m","e","n","t","s">>,
     <<"i","n","s","t","a","n","t","s">>,
     <<"s","o","r","c","e","r","i","e","s">>,
     <<"p","l","a","n","e","s","w","a","l","k","e","r","s">>,
     <<"s","t","r","a","t","e","g","y">>,
     <<"w","i","n"," ","c","o","n","d","i","t","i","o","n">> >>

\* trimmed.match(/^\d/)
StartsWithDigit(s) == s # <<>> /\ IsDigit(s[1])

\* trimmed.startsWith('#') || trimmed.startsWith('**') || trimmed.startsWith('###')
IsMarkup(s) ==
  \/ startsWith(s, <<"#">>)
  \/ startsWith(s, <<"*","*">>)
  \/ startsWith(s, <<"#","#","#">>)

\* IsSectionLabel, had the skips not tested for a leading digit.
IsSectionLabel_AnyLine(s) ==
  LET lower == toLowerCase(s)
  IN  \E i \in 1..Len(CATEGORY_WORDS) : includes(lower, CATEGORY_WORDS[i])

\* One of the ten "includes(word) && !match(/^\d/)" skips.
IsSectionLabel(s) ==
  LET lower == toLowerCase(s)
  IN  ~StartsWithDigit(s)
      /\ \E i \in 1..Len(CATEGORY_WORDS) : includes(lower, CATEGORY_WORDS[i])

\* Length of the longest prefix of s made of characters satisfying the class.
DigitRun(s) ==
  CHOOSE k \in 0..Len(s) :
     /\ \A i \in 1..k : IsDigit(s[i])
     /\ (k = Len(s) \/ ~IsDigit(s[k + 1]))

SpaceRun(s) ==
  CHOOSE k \in 0..Len(s) :
     /\ \A i \in 1..k : IsWhiteSpace(s[i])
     /\ (k = Len(s) \/ ~IsWhiteSpace(s[k + 1]))

\* trimmed.match(/^(\d+)x?\s+(.+)$/i): the groups when it matches.
\* \d+ and \s+ are greedy and no shorter choice can succeed where the
\* longest fails, so the match is decided by the longest runs.
QuantityMatch(s) ==
  LET d     == DigitRun(s)
      afterD == SubSeq(s, d + 1, Len(s))
      x     == IF afterD # <<>> /\ afterD[1] \in {"x", "X"} THEN 1 ELSE 0
      afterX == SubSeq(afterD, x + 1, Len(afterD))
      w     == SpaceRun(afterX)
      rest  == SubSeq(afterX, w + 1, Len(afterX))
      ok    == /\ d >= 1
               /\ w >= 1
               /\ rest # <<>>
               /\ \A i \in 1..Len(rest) : ~IsLineTerminator(rest[i])
  IN  [matched |-> ok,
       g1 |-> IF ok THEN SubSeq(s, 1, d) ELSE <<>>,
       g2 |-> IF ok THEN rest ELSE <<>>]

\* The body of the for loop: the entries one line contributes (none or one).
ParseLine(line) ==
  LET trimmed == trim(line)
      match   == QuantityMatch(trimmed)
  IN  IF trimmed = <<>> THEN <<>>
      ELSE IF IsMarkup(trimmed) THEN <<>>
      ELSE IF IsSectionLabel(trimmed) THEN <<>>
      ELSE IF match.matched
           THEN << [quantity |-> parseInt(match.g1), name |-> trim(match.g2)] >>
      ELSE IF trimmed # <<>> /\ ~includes(trimmed, <<":">>) /\ Len(trimmed) > 2
           THEN << [quantity |-> 1, name |-> trimmed] >>
      ELSE <<>>

RECURSIVE ParseLines(_)
ParseLines(lines) ==
  IF lines = <<>> THEN <<>>
  ELSE ParseLine(Head(lines)) \o ParseLines(Tail(lines))

parseDeckList(text) == ParseLines(split(text))


(***************************************************************************)
(* validateParsedDeck                                                      *)
(***************************************************************************)
BASIC_LANDS ==
  << <<"p","l","a","i","n","s">>,
     <<"i","s","l","a","n","d">>,
     <<"s","w","a","m","p">>,
     <<"m","o","u","n","t","a","i","n">>,
     <<"f","o","r","e","s","t">>,
     <<"w","a","s","t","e","s">>,
     <<"s","n","o","w","-","c","o","v","e","r","e","d"," ","p","l","a","i","n","s">>,
     <<"s","n","o","w","-","c","o","v","e","r","e","d"," ","i","s","l","a","n","d">>,
     <<"s","n","o","w","-","c","o","v","e","r","e","d"," ","s","w","a","m","p">>,
     <<"s","n","o","w","-","c","o","v","e","r","e","d"," ","m","o","u","n","t","a","i","n">>,
     <<"s","n","o","w","-","c","o","v","e","r","e","d"," ","f","o","r","e","s","t">> >>

\* BASIC_LANDS.includes(name)
InBasicLands(name) == \E i \in 1..Len(BASIC_LANDS) : BASIC_LANDS[i] = name

isBasicLand(cardName) == InBasicLands(toLowerCase(cardName))

\* The substrings of the rough land detection.
LAND_HINTS ==
  << <<"l","a","n","d">>,
     <<"t","e","m","p","l","e">>,
     <<"f","o","u","n","t","a","i","n">>,
     <<"s","h","o","c","k">>,
     <<"g","a","t","e">> >>

LooksLikeLand(nameLower) ==
  \/ includes(nameLower, LAND_HINTS[1])
  \/ InBasicLands(nameLower)
  \/ \E i \in 2..Len(LAND_HINTS) : includes(nameLower, LAND_HINTS[i])

\* The options argument: the properties it carries (given) and their values.
\* A property that is not given is undefined and takes its default.
DefaultExpectedSize == 100
MonoColorLands == 32
MultiColorLands == 36
LandSlack == 5

ExpectedSizeOf(o) ==
  IF "expectedSize" \in o.given THEN o.expectedSize ELSE DefaultExpectedSize

IsMonoColorOf(o) ==
  IF "isMonoColor" \in o.given THEN o.isMonoColor ELSE FALSE

\* cardCounts = {} is a plain object: its own properties, in insertion order,
\* as two parallel sequences, over the properties it inherits from
\* Object.prototype.  A value is a number, or the string that += builds from
\* a non-number (isNumber = FALSE).
EmptyObject == [keys |-> <<>>, vals |-> <<>>]

Num(n) == [isNumber |-> TRUE, n |-> n]
NotANumber == [isNumber |-> FALSE, n |-> 0]

\* Lower-case property names every plain object inherits.
ProtoKey == <<"_","_","p","r","o","t","o","_","_">>
ObjectPrototypeKeys == { <<"c","o","n","s","t","r","u","c","t","o","r">>, ProtoKey }

HasOwn(obj, key) == \E i \in 1..Len(obj.keys) : obj.keys[i] = key

OwnIndex(obj, key) == CHOOSE i \in 1..Len(obj.keys) : obj.keys[i] = key

\* if (cardCounts[nameLower]): the truthiness of the property read.
Truthy(obj, key) ==
  IF HasOwn(obj, key)
  THEN LET v == obj.vals[OwnIndex(obj, key)] IN ~v.isNumber \/ v.n # 0
  ELSE key \in ObjectPrototypeKeys

\* cardCounts[nameLower] + card.quantity
Plus(obj, key, q) ==
  IF HasOwn(obj, key) /\ obj.vals[OwnIndex(obj, key)].isNumber
  THEN Num(obj.vals[OwnIndex(obj, key)].n + q)
  ELSE NotANumber

\* cardCounts[key] = v; assigning a non-object to __proto__ has no effect.
SetProp(obj, key, v) ==
  IF key = ProtoKey THEN obj
  ELSE IF HasOwn(obj, key)
  THEN [obj EXCEPT !.vals[OwnIndex(obj, key)] = v]
  ELSE [keys |-> Append(obj.keys, key), vals |-> Append(obj.vals, v)]

\* CountCard, had totalCards been advanced inside the non-basic branch.
CountCard_LandsNotTotalled(acc, card) ==
  LET nameLower == toLowerCase(card.name)
      counts == IF isBasicLand(card.name) THEN acc.cardCounts
                ELSE IF Truthy(acc.cardCounts, nameLower)
                THEN SetProp(acc.cardCounts, nameLower,
                             Plus(acc.cardCounts, nameLower, card.quantity))
                ELSE SetProp(acc.cardCounts, nameLower, Num(card.quantity))
  IN  [cardCounts |-> counts,
       totalCards |-> IF isBasicLand(card.name) THEN acc.totalCards
                      ELSE acc.totalCards + card.quantity,
       landCount  |-> IF LooksLikeLand(nameLower)
                      THEN acc.landCount + card.quantity
                      ELSE acc.landCount]

\* One iteration of the loop over the cards.
CountCard(acc, card) ==
  LET nameLower == toLowerCase(card.name)
      counts == IF isBasicLand(card.name) THEN acc.cardCounts
                ELSE IF Truthy(acc.cardCounts, nameLower)
                THEN SetProp(acc.cardCounts, nameLower,
                             Plus(acc.cardCounts, nameLower, card.quantity))
                ELSE SetProp(acc.cardCounts, nameLower, Num(card.quantity))
  IN  [cardCounts |-> counts,
       totalCards |-> acc.totalCards + card.quantity,
       landCount  |-> IF LooksLikeLand(nameLower)
                      THEN acc.landCount + card.quantity
                      ELSE acc.landCount]

RECURSIVE CountCards(_, _)
CountCards(acc, cs) ==
  IF cs = <<>> THEN acc
  ELSE CountCards(CountCard(acc, Head(cs)), Tail(cs))

\* count > 1 for an entry of Object.entries(cardCounts)
IsDuplicateCount(v) == v.isNumber /\ v.n > 1

\* The "Find duplicates" loop: the indices of the reported entries, in order.
DuplicateIndices(obj) ==
  SelectSeq([i \in 1..Len(obj.keys) |-> i],
            LAMBDA i : IsDuplicateCount(obj.vals[i]))

\* SizeErrors, had the else branch been left out.
SizeErrors_ShortOnly(totalCards, expectedSize) ==
  IF totalCards # expectedSize /\ totalCards < expectedSize
  THEN << [kind |-> "short", name |-> <<>>, count |-> totalCards, expected |-> expectedSize] >>
  ELSE <<>>

SizeErrors(totalCards, expectedSize) ==
  IF totalCards # expectedSize
  THEN IF totalCards < expectedSize
       THEN << [kind |-> "short", name |-> <<>>, count |-> totalCards, expected |-> expectedSize] >>
       ELSE << [kind |-> "over", name |-> <<>>, count |-> totalCards, expected |-> expectedSize] >>
  ELSE <<>>

\* LandWarnings, had the comparison been <=.
LandWarnings_Inclusive(landCount, expectedLands) ==
  IF landCount <= expectedLands - LandSlack
  THEN << [kind |-> "fewLands", count |-> landCount, expected |-> expectedLands] >>
  ELSE <<>>

LandWarnings(landCount, expectedLands) ==
  IF landCount < expectedLands - LandSlack
  THEN << [kind |-> "fewLands", count |-> landCount, expected |-> expectedLands] >>
  ELSE <<>>

validateParsedDeck(cs, o) ==
  LET expectedSize == ExpectedSizeOf(o)
      isMonoColor  == IsMonoColorOf(o)
      acc == CountCards([cardCounts |-> EmptyObject, totalCards |-> 0, landCount |-> 0], cs)
      dupIdx == DuplicateIndices(acc.cardCounts)
      duplicates == [k \in 1..Len(dupIdx) |->
                       [name  |-> acc.cardCounts.keys[dupIdx[k]],
                        count |-> acc.cardCounts.vals[dupIdx[k]].n]]
      dupErrors == [k \in 1..Len(dupIdx) |->
                       [kind |-> "duplicate",
                        name |-> duplicates[k].name,
                        count |-> duplicates[k].count,
                        expected |-> 1]]
      errors == dupErrors \o SizeErrors(acc.totalCards, expectedSize)
      expectedLands == IF isMonoColor THEN MonoColorLands ELSE MultiColorLands
      warnings == LandWarnings(acc.landCount, expectedLands)
  IN  [isValid       |-> Len(errors) = 0,
       totalCards    |-> acc.totalCards,
       uniqueCards   |-> Len(acc.cardCounts.keys),
       landCount     |-> acc.landCount,
       hasDuplicates |-> Len(duplicates) > 0,
       duplicates    |-> duplicates,
       errors        |-> errors,
       warnings      |-> warnings,
       cards         |-> cs]

validateDeckList(text, o) == validateParsedDeck(parseDeckList(text), o)

(***************************************************************************)
(* removeDuplicates                                                        *)
(***************************************************************************)
\* KeepCard, had the first occurrence been pushed as it is.
KeepCard_QuantityKept(st, card) ==
  LET nameLower == toLowerCase(card.name)
  IN  IF isBasicLand(card.name)
      THEN [seen |-> st.seen, result |-> Append(st.result, card)]
      ELSE IF nameLower \notin st.seen
      THEN [seen |-> st.seen \cup {nameLower}, result |-> Append(st.result, card)]
      ELSE st

\* KeepCard, had the basic-land branch not ended with continue.
KeepCard_NoContinue(st, card) ==
  LET nameLower == toLowerCase(card.name)
      pushed == IF isBasicLand(card.name) THEN Append(st.result, card) ELSE st.result
  IN  IF nameLower \notin st.seen
      THEN [seen |-> st.seen \cup {nameLower},
            result |-> Append(pushed, [card EXCEPT !.quantity = 1])]
      ELSE [seen |-> st.seen, result |-> pushed]

\* removeDuplicates, had it compared the names as written.
KeepCard_CaseSensitive(st, card) ==
  IF isBasicLand(card.name)
  THEN [seen |-> st.seen, result |-> Append(st.result, card)]
  ELSE IF card.name \notin st.seen
  THEN [seen |-> st.seen \cup {card.name},
        result |-> Append(st.result, [card EXCEPT !.quantity = 1])]
  ELSE st

\* One iteration of the loop: st carries the seen set and the result list.
KeepCard(st, card) ==
  LET nameLower == toLowerCase(card.name)
  IN  IF isBasicLand(card.name)
      THEN [seen |-> st.seen, result |-> Append(st.result, card)]
      ELSE IF nameLower \notin st.seen
      THEN [seen |-> st.seen \cup {nameLower},
            result |-> Append(st.result, [card EXCEPT !.quantity = 1])]
      ELSE st

RECURSIVE KeepCards(_, _)
KeepCards(st, cs) ==
  IF cs = <<>> THEN st
  ELSE KeepCards(KeepCard(st, Head(cs)), Tail(cs))

removeDuplicates(cs) == KeepCards([seen |-> {}, result |-> <<>>], cs).result

\* formatDeckList: every card becomes the line "1x <name>", whatever its
\* quantity, and the lines are joined by line feeds.
FormatCard(c) == <<"1", "x", " ">> \o c.name

formatDeckList(cs) == Join([i \in 1..Len(cs) |-> FormatCard(cs[i])])


(***************************************************************************)
(* Frequency maps and rankings                                             *)
(*                                                                         *)
(* The analyzers count into plain objects ({}), read them back through     *)
(* Object.entries / Object.keys and rank with Array.prototype.sort.        *)
(***************************************************************************)
TopN == 5

Min(a, b) == IF a <= b THEN a ELSE b

\* parts.join(sep)
RECURSIVE JoinWith(_, _)
JoinWith(parts, sep) ==
  IF Len(parts) = 0 THEN <<>>
  ELSE IF Len(parts) = 1 THEN parts[1]
  ELSE parts[1] \o sep \o JoinWith(Tail(parts), sep)

\* A property name that is a canonical array index: own properties with
\* such names are enumerated first, in ascending numeric order, before the
\* other names, which come in insertion order.  Names of ten digits, some
\* of which are indices too (up to 4294967294), do not occur here.
IsArrayIndex(key) ==
  /\ Len(key) > 0
  /\ Len(key) < 10
  /\ \A i \in 1..Len(key) : IsDigit(key[i])
  /\ (Len(key) = 1 \/ key[1] # "0")

RECURSIVE AscendingIndices(_, _)
AscendingIndices(obj, I) ==
  IF I = {} THEN <<>>
  ELSE LET m == CHOOSE i \in I :
                  \A j \in I : parseInt(obj.keys[i]) <= parseInt(obj.keys[j])
       IN  <<m>> \o AscendingIndices(obj, I \ {m})

OwnPropertyOrder(obj) ==
  LET all == [i \in 1..Len(obj.keys) |-> i]
  IN  AscendingIndices(obj, { i \in 1..Len(obj.keys) : IsArrayIndex(obj.keys[i]) })
      \o SelectSeq(all, LAMBDA i : ~IsArrayIndex(obj.keys[i]))

\* Object.entries(obj): the pairs [key, value]
ObjectEntries(obj) ==
  LET order == OwnPropertyOrder(obj)
  IN  [k \in 1..Len(order) |-> << obj.keys[order[k]], obj.vals[order[k]] >>]

\* obj[key] = (obj[key] || 0) + 1
Increment(obj, key) ==
  SetProp(obj, key, IF Truthy(obj, key) THEN Plus(obj, key, 1) ELSE Num(1))

\* (a, b) => b[1] - a[1]; the difference is NaN when a count is not a
\* number, and sort reads NaN as 0.
ByCountDescending(a, b) ==
  IF a[2].isNumber /\ b[2].isNumber THEN b[2].n - a[2].n ELSE 0

\* Array.prototype.sort is stable: an entry goes behind every entry that
\* does not compare greater than it.
InsertEntry(sorted, e) ==
  LET k == Cardinality({ i \in 1..Len(sorted) : ByCountDescending(sorted[i], e) <= 0 })
  IN  SubSeq(sorted, 1, k) \o <<e>> \o SubSeq(sorted, k + 1, Len(sorted))

RECURSIVE StableSort(_)
StableSort(es) ==
  IF es = <<>> THEN <<>>
  ELSE InsertEntry(StableSort(SubSeq(es, 1, Len(es) - 1)), es[Len(es)])

\* The comparator is a consistent comparator unless a count that is not a
\* number meets two different numbers.
ConsistentComparator(es) ==
  \/ \A i \in 1..Len(es) : es[i][2].isNumber
  \/ \A i, j \in 1..Len(es) :
        es[i][2].isNumber /\ es[j][2].isNumber => es[i][2].n = es[j][2].n

Orderings(es) ==
  { [k \in 1..Len(es) |-> es[p[k]]] :
      p \in { q \in [1..Len(es) -> 1..Len(es)] :
                \A a, b \in 1..Len(es) : q[a] = q[b] => a = b } }

\* entries.sort((a, b) => b[1] - a[1]): the stable order, or, with a
\* comparator that is not consistent, an order the engine chooses.
SortOutcomes(es) ==
  IF ConsistentComparator(es) THEN { StableSort(es) } ELSE Orderings(es)

\* ranked.slice(0, 5)
Slice(es, n) == SubSeq(es, 1, Min(n, Len(es)))

(***************************************************************************)
(* MoxfieldAPI.analyzeUserPatterns                                         *)
(*                                                                         *)
(* A deck record carries format, commanders (the card names) and           *)
(* colorIdentity (an array of one-letter strings); an absent or empty      *)
(* field is the empty sequence, which the code treats alike.  The deck     *)
(* name only feeds the local list themes, which is not returned.           *)
(***************************************************************************)
UnknownFormat == <<"u","n","k","n","o","w","n">>
UnknownCommander == <<"U","n","k","n","o","w","n">>

\* Array.prototype.sort() without a comparator, on one-letter strings: by
\* code unit, which for upper-case letters is the alphabet's order.
LetterRank(c) == CHOOSE i \in 1..Len(UpperChars) : UpperChars[i] = c

RECURSIVE SortLetters(_)
SortLetters(ls) ==
  IF ls = <<>> THEN <<>>
  ELSE LET rest == SortLetters(SubSeq(ls, 1, Len(ls) - 1))
           c == ls[Len(ls)]
           k == Cardinality({ i \in 1..Len(rest) : LetterRank(rest[i]) <= LetterRank(c) })
       IN  SubSeq(rest, 1, k) \o <<c>> \o SubSeq(rest, k + 1, Len(rest))

\* deck.commanders.forEach(...)
RECURSIVE CountCommanders(_, _)
CountCommanders(commanders, cs) ==
  IF cs = <<>> THEN commanders
  ELSE CountCommanders(Increment(commanders, IF Head(cs) # <<>> THEN Head(cs) ELSE UnknownCommander),
                       Tail(cs))

\* One iteration of decks.forEach; decks collects the records as the loop
\* leaves them, colorIdentity being sorted in place.
CountPatterns(acc, d) ==
  LET format == IF d.format # <<>> THEN d.format ELSE UnknownFormat
      colorCombo == SortLetters(d.colorIdentity)
  IN  [formats    |-> Increment(acc.formats, format),
       commanders |-> CountCommanders(acc.commanders, d.commanders),
       colors     |-> IF Len(d.colorIdentity) > 0
                      THEN Increment(acc.colors, colorCombo)
                      ELSE acc.colors,
       decks      |-> Append(acc.decks, [d EXCEPT !.colorIdentity = colorCombo])]

RECURSIVE CountAllPatterns(_, _)
CountAllPatterns(acc, ds) ==
  IF ds = <<>> THEN acc
  ELSE CountAllPatterns(CountPatterns(acc, Head(ds)), Tail(ds))

PatternCounts(ds) ==
  CountAllPatterns([formats |-> EmptyObject, commanders |-> EmptyObject,
                    colors |-> EmptyObject, decks |-> <<>>], ds)

Undefined == [defined |-> FALSE, value |-> <<>>]
Defined(v) == [defined |-> TRUE, value |-> v]

\* Object.keys(formats).sort((a, b) => formats[b] - formats[a])[0]
FirstKey(es) == IF Len(es) = 0 THEN Undefined ELSE Defined(es[1][1])

\* The values analyzeUserPatterns(ds) can return.
analyzeUserPatterns(ds) ==
  LET acc == PatternCounts(ds)
  IN  { [formats        |-> acc.formats,
         commanders     |-> acc.commanders,
         colors         |-> acc.colors,
         favoriteFormat |-> FirstKey(f),
         topCommanders  |-> [i \in 1..Len(Slice(c, TopN)) |->
                               [name |-> c[i][1], count |-> c[i][2]]],
         topColorCombos |-> [i \in 1..Len(Slice(k, TopN)) |->
                               [colors |-> k[i][1], count |-> k[i][2]]]] :
        f \in SortOutcomes(ObjectEntries(acc.formats)),
        c \in SortOutcomes(ObjectEntries(acc.commanders)),
        k \in SortOutcomes(ObjectEntries(acc.colors)) }

(***************************************************************************)
(* ProfileAnalyzer.generateRecommendations                                 *)
(***************************************************************************)
AllColors == <<"W", "U", "B", "R", "G">>

\* getColorName of utils/colorIdentity.js: the full name of a color letter.
getColorName ==
  [c \in {"W", "U", "B", "R", "G"} |->
     CASE c = "W" -> <<"W","h","i","t","e">>
       [] c = "U" -> <<"B","l","u","e">>
       [] c = "B" -> <<"B","l","a","c","k">>
       [] c = "R" -> <<"R","e","d">>
       [] c = "G" -> <<"G","r","e","e","n">>]

\* A recommendation string: a fixed text, or a template and the value
\* interpolated into it.
Message(template, value) == [template |-> template, value |-> value]

ArchetypeAdvice ==
  Message("Consider exploring different archetypes to expand your deck building skills", <<>>)

PowerLevelAdvice ==
  Message("Build decks at different power levels for various playgroups", <<>>)

\* combo.colors.split('').forEach(c => playedColors.add(c))
PlayedColors(combos) ==
  UNION { { combos[i].colors[j] : j \in 1..Len(combos[i].colors) } : i \in 1..Len(combos) }

UnplayedColors(combos) ==
  SelectSeq(AllColors, LAMBDA c : c \notin PlayedColors(combos))

generateRecommendations(p) ==
  LET unplayedColors == UnplayedColors(p.topColorCombos)
      names == [i \in 1..Len(unplayedColors) |-> getColorName[unplayedColors[i]]]
  IN  (IF Len(p.topColorCombos) > 0 /\ Len(unplayedColors) > 0
       THEN << Message("Try exploring ${} colors", JoinWith(names, <<" ","o","r"," ">>)) >>
       ELSE <<>>)
      \o << ArchetypeAdvice, PowerLevelAdvice >>

(***************************************************************************)
(* RecommendationEngine                                                    *)
(*                                                                         *)
(* A history entry carries commander and strategy (strings; absent and     *)
(* empty are both falsy and are the empty sequence), colors (an array of   *)
(* one-letter strings, or undefined), cards (an array, empty when absent)  *)
(* and the timestamp addToHistory adds.                                    *)
(***************************************************************************)
Null == [defined |-> FALSE, value |-> <<>>]

\* A card of deck.cards: a string, or an object with a name.
CardString(name) == [isString |-> TRUE, name |-> name]
CardObject(name) == [isString |-> FALSE, name |-> name]

\* new Date().toISOString(): no modelled operation reads it.
Timestamps == { "toISOString" }

\* { ...deck, timestamp }
HistoryEntry(d, t) ==
  [commander |-> d.commander, strategy |-> d.strategy, colors |-> d.colors,
   cards |-> d.cards, timestamp |-> t]

addToHistory(history, d, t) == Append(history, HistoryEntry(d, t))

\* One iteration of the loop of analyzeHistory; history collects the
\* entries as the loop leaves them, deck.colors being sorted in place.
CountHistory(acc, d) ==
  LET colorKey == SortLetters(d.colors.value)
  IN  [commanders |-> IF d.commander # <<>>
                      THEN Increment(acc.commanders, d.commander)
                      ELSE acc.commanders,
       strategies |-> IF d.strategy # <<>>
                      THEN Increment(acc.strategies, d.strategy)
                      ELSE acc.strategies,
       colors     |-> IF d.colors.defined
                      THEN Increment(acc.colors, colorKey)
                      ELSE acc.colors,
       history    |-> Append(acc.history,
                             IF d.colors.defined
                             THEN [d EXCEPT !.colors = Defined(colorKey)]
                             ELSE d)]

RECURSIVE CountAllHistory(_, _)
CountAllHistory(acc, h) ==
  IF h = <<>> THEN acc
  ELSE CountAllHistory(CountHistory(acc, Head(h)), Tail(h))

HistoryCounts(h) ==
  CountAllHistory([commanders |-> EmptyObject, strategies |-> EmptyObject,
                   colors |-> EmptyObject, history |-> <<>>], h)

\* getMostCommon, had it taken the first entry without sorting.
getMostCommon_Unsorted(frequencyMap) ==
  LET entries == ObjectEntries(frequencyMap)
  IN  IF Len(entries) = 0 THEN { Null }
      ELSE { Defined(entries[1][1]) }

\* The values getMostCommon(frequencyMap) can return.
getMostCommon(frequencyMap) ==
  LET entries == ObjectEntries(frequencyMap)
  IN  IF Len(entries) = 0 THEN { Null }
      ELSE { Defined(sorted[1][1]) : sorted \in SortOutcomes(entries) }

\* The values analyzeHistory() can return on the history h.
analyzeHistory(h) ==
  LET acc == HistoryCounts(h)
  IN  { [totalDecks          |-> Len(h),
         commanders          |-> acc.commanders,
         strategies          |-> acc.strategies,
         colors              |-> acc.colors,
         mostPlayedCommander |-> c,
         favoriteStrategy    |-> s,
         favoriteColors      |-> k] :
        c \in getMostCommon(acc.commanders),
        s \in getMostCommon(acc.strategies),
        k \in getMostCommon(acc.colors) }

\* deck.cards.forEach(...)
RECURSIVE CountCardNames(_, _)
CountCardNames(cardFrequency, cs) ==
  IF cs = <<>> THEN cardFrequency
  ELSE CountCardNames(Increment(cardFrequency, Head(cs).name), Tail(cs))

RECURSIVE CardFrequency(_, _)
CardFrequency(cardFrequency, h) ==
  IF h = <<>> THEN cardFrequency
  ELSE CardFrequency(CountCardNames(cardFrequency, Head(h).cards), Tail(h))

\* The values identifyStaples() can return on the history h.
identifyStaples(h) ==
  LET entries == ObjectEntries(CardFrequency(EmptyObject, h))
      multiple == SelectSeq(entries, LAMBDA e : e[2].isNumber /\ e[2].n > 1)
  IN  { [i \in 1..Len(sorted) |-> [name |-> sorted[i][1], appearances |-> sorted[i][2]]] :
        sorted \in SortOutcomes(multiple) }

colorName ==
  [c \in {"W", "U", "B", "R", "G"} |->
     CASE c = "W" -> <<"W","h","i","t","e">>
       [] c = "U" -> <<"B","l","u","e">>
       [] c = "B" -> <<"B","l","a","c","k">>
       [] c = "R" -> <<"R","e","d">>
       [] c = "G" -> <<"G","r","e","e","n">>]

commonStrategies ==
  << <<"a","g","g","r","o">>,
     <<"c","o","n","t","r","o","l">>,
     <<"c","o","m","b","o">>,
     <<"m","i","d","r","a","n","g","e">>,
     <<"t","r","i","b","a","l">>,
     <<"v","o","l","t","r","o","n">>,
     <<"a","r","i","s","t","o","c","r","a","t","s">>,
     <<"t","o","k","e","n","s">>,
     <<"s","p","e","l","l","s","l","i","n","g","e","r">> >>

\* Object.keys(obj), as a set
OwnKeys(obj) == { obj.keys[i] : i \in 1..Len(obj.keys) }

CommaSpace == <<",", " ">>

\* identifyGaps, on the value analyzeHistory returned
GapsOf(history) ==
  LET playedColors == UNION { { key[j] : j \in 1..Len(key) } : key \in OwnKeys(history.colors) }
      unplayedColors == SelectSeq(AllColors, LAMBDA c : c \notin playedColors)
      playedStrategies == OwnKeys(history.strategies)
      unplayedStrategies == SelectSeq(commonStrategies, LAMBDA s : s \notin playedStrategies)
      colorGap ==
        [type |-> "colors",
         description |-> Message("Haven't explored: ${}",
                                 JoinWith([i \in 1..Len(unplayedColors) |-> <<unplayedColors[i]>>],
                                          CommaSpace)),
         suggestion |-> Message("Try building with ${}",
                                <<unplayedColors[1]>> \o <<" ", "(">>
                                  \o colorName[unplayedColors[1]] \o <<")">>)]
      strategyGap ==
        [type |-> "strategies",
         description |-> Message("Unexplored strategies: ${}",
                                 JoinWith(Slice(unplayedStrategies, 3), CommaSpace)),
         suggestion |-> Message("Consider trying a ${} deck", unplayedStrategies[1])]
  IN  (IF Len(unplayedColors) > 0 THEN <<colorGap>> ELSE <<>>)
      \o (IF Len(unplayedStrategies) > 0 THEN <<strategyGap>> ELSE <<>>)

\* The values identifyGaps(profileAnalysis) can return on the history h.
identifyGaps(h) == { GapsOf(history) : history \in analyzeHistory(h) }

\* frequencyMap[key], interpolated into a string
CountText(frequencyMap, key) ==
  IF HasOwn(frequencyMap, key) THEN frequencyMap.vals[OwnIndex(frequencyMap, key)]
  ELSE NotANumber

\* a string that is neither null nor empty
TruthyString(v) == v.defined /\ v.value # <<>>

\* The values generateRecommendations(options) can return on the history h.
Engine_generateRecommendations(h) ==
  { [buildOnStrengths |->
       (IF TruthyString(history.favoriteStrategy)
        THEN << [template |-> "Continue exploring ${} - you've built ${} decks in this style",
                 value |-> history.favoriteStrategy.value,
                 count |-> CountText(history.strategies, history.favoriteStrategy.value)] >>
        ELSE <<>>)
       \o (IF TruthyString(history.favoriteColors)
           THEN << [template |-> "Try new commanders in your favorite colors: ${}",
                    value |-> history.favoriteColors.value,
                    count |-> NotANumber] >>
           ELSE <<>>),
     exploreNew |-> [i \in 1..Len(gaps) |-> gaps[i].suggestion],
     budgetOptions |-> <<>>,
     upgrades |->
       IF Len(staples) > 0
       THEN << Message("You frequently use these cards: ${}",
                       JoinWith([i \in 1..Len(Slice(staples, 3)) |-> staples[i].name], CommaSpace)),
               Message("Consider acquiring premium versions or finding alternatives", <<>>) >>
       ELSE <<>>] :
    history \in analyzeHistory(h),
    staples \in identifyStaples(h),
    gaps \in identifyGaps(h) }

\* suggestBudgetSubstitutions(cardList): a placeholder, no pricing data yet
suggestBudgetSubstitutions(cardList) ==
  [note |-> "Budget substitution feature requires pricing data integration",
   suggestion |-> "This will be available once TCGPlayer or CardKingdom API integration is added",
   placeholder |-> [i \in 1..Len(cardList) |->
                      [original |-> cardList[i], needsPricingData |-> TRUE]]]

\* The values suggestNewArchetype() can return on the history h.
suggestNewArchetype(h) ==
  { IF Len(gaps) > 0
    THEN [archetype |-> gaps[1].suggestion, reason |-> gaps[1].description]
    ELSE [archetype |-> Message("Try something completely different", <<>>),
          reason |-> Message("Expand your deck building repertoire", <<>>)] :
    gaps \in identifyGaps(h) }

\* JSON.stringify(this.userHistory, null, 2) and what JSON.parse makes of a
\* text: a text is malformed, or holds an array, or holds another value.
JsonArray(h) == [kind |-> "array", value |-> h]
JsonOther == [kind |-> "other", value |-> <<>>]
JsonMalformed == [kind |-> "malformed", value |-> <<>>]

exportHistory(h) == JsonArray(h)

\* importHistory(json): the new history, or the error thrown
importHistory(h, json) ==
  IF json.kind = "malformed"
  THEN [userHistory |-> h, thrown |-> "Failed to import history: ${error.message}"]
  ELSE [userHistory |-> IF json.kind = "array" THEN json.value ELSE <<>>,
        thrown |-> ""]

(***************************************************************************)
(* MetaAnalyzer                                                            *)
(*                                                                         *)
(* A meta-deck record carries a name and a metaShare, a string; an absent  *)
(* and an empty metaShare are both falsy and are the empty sequence.       *)
(***************************************************************************)
\* str.replace('%', ''): the first '%' is removed, wherever it stands
RemoveFirstPercent(s) ==
  IF \E i \in 1..Len(s) : s[i] = "%"
  THEN LET k == CHOOSE i \in 1..Len(s) : s[i] = "%" /\ \A j \in 1..(i - 1) : s[j] # "%"
       IN  SubSeq(s, 1, k - 1) \o SubSeq(s, k + 1, Len(s))
  ELSE s

\* The longest run of digits at the head of s.
RECURSIVE LeadingDigits(_)
LeadingDigits(s) ==
  IF s # <<>> /\ IsDigit(s[1]) THEN <<s[1]>> \o LeadingDigits(Tail(s)) ELSE <<>>

\* parseFloat(str): leading white space is skipped, then the longest prefix
\* that is a decimal literal (sign, digits, a point, digits) is read and
\* the rest of the string is ignored; without a digit the result is NaN.
\* The value is kept as sign, integer part and fraction digits.  Exponents
\* and Infinity need letters the share texts below do not hold.
parseFloat(str) ==
  LET s == trimStart(str)
      signed == s # <<>> /\ s[1] \in {"+", "-"}
      body == IF signed THEN Tail(s) ELSE s
      int == LeadingDigits(body)
      rest == SubSeq(body, Len(int) + 1, Len(body))
      frac == IF rest # <<>> /\ rest[1] = "." THEN LeadingDigits(Tail(rest)) ELSE <<>>
  IN  [isNaN    |-> int = <<>> /\ frac = <<>>,
       negative |-> signed /\ s[1] = "-",
       int      |-> parseInt(int),
       frac     |-> frac]

\* share > 0 and share < 5, both false for NaN
GreaterThanZero(share) ==
  /\ ~share.isNaN
  /\ ~share.negative
  /\ (share.int > 0 \/ \E i \in 1..Len(share.frac) : share.frac[i] # "0")

LessThan(share, n) ==
  /\ ~share.isNaN
  /\ (share.negative \/ share.int < n)

\* The filter for lowShareDecks.
IsLowShare(d) ==
  LET shareStr == trim(RemoveFirstPercent(IF d.metaShare # <<>> THEN d.metaShare ELSE <<"0">>))
      share == parseFloat(shareStr)
  IN  ~share.isNaN /\ GreaterThanZero(share) /\ LessThan(share, 5)

NamesOf(ds) == [i \in 1..Len(ds) |-> ds[i].name]

\* identifyTrends, had it listed as declining the records past the third
\* whose share is not low.
identifyTrends_Declining(ds) ==
  LET lowShareDecks == SelectSeq(ds, IsLowShare)
      others == SelectSeq(SubSeq(ds, Min(4, Len(ds) + 1), Len(ds)), LAMBDA d : ~IsLowShare(d))
  IN  [popular   |-> IF Len(ds) >= 3 THEN NamesOf(Slice(ds, 3)) ELSE <<>>,
       emerging  |-> IF Len(lowShareDecks) > 0 THEN NamesOf(Slice(lowShareDecks, 3)) ELSE <<>>,
       declining |-> NamesOf(others)]

identifyTrends(ds) ==
  LET lowShareDecks == SelectSeq(ds, IsLowShare)
  IN  [popular   |-> IF Len(ds) >= 3 THEN NamesOf(Slice(ds, 3)) ELSE <<>>,
       emerging  |-> IF Len(lowShareDecks) > 0 THEN NamesOf(Slice(lowShareDecks, 3)) ELSE <<>>,
       declining |-> <<>>]

\* A line of the summary: a template and the values interpolated into it.
SummaryLine(template, count, name, metaShare) ==
  [template |-> template, count |-> count, name |-> name, metaShare |-> metaShare]

\* generateMetaSummary, had it made the remark only above 3 records.
generateMetaSummary_MoreThanThree(ds) ==
  IF Len(ds) > 0
  THEN << SummaryLine("Analyzed ${} meta decks", Len(ds), <<>>, <<>>),
          SummaryLine("Most played: ${} (${} of meta)", 0, ds[1].name, ds[1].metaShare) >>
       \o (IF Len(ds) > 3
           THEN << SummaryLine("Top 3 strategies dominate the format", 0, <<>>, <<>>) >>
           ELSE <<>>)
  ELSE << SummaryLine("Unable to fetch current meta data", 0, <<>>, <<>>),
          SummaryLine("Meta analysis requires web scraping which may be limited", 0, <<>>, <<>>) >>

generateMetaSummary(ds) ==
  IF Len(ds) > 0
  THEN << SummaryLine("Analyzed ${} meta decks", Len(ds), <<>>, <<>>),
          SummaryLine("Most played: ${} (${} of meta)", 0, ds[1].name, ds[1].metaShare) >>
       \o (IF Len(ds) >= 3
           THEN << SummaryLine("Top 3 strategies dominate the format", 0, <<>>, <<>>) >>
           ELSE <<>>)
  ELSE << SummaryLine("Unable to fetch current meta data", 0, <<>>, <<>>),
          SummaryLine("Meta analysis requires web scraping which may be limited", 0, <<>>, <<>>) >>

(***************************************************************************)
(* YouTubeLearner: the knowledge base and its export and import            *)
(***************************************************************************)
\* JSON.stringify(this.knowledgeBase, null, 2)
exportKnowledge(kb) == JsonArray(kb)

\* importKnowledge(json), had it stored the parsed value before looking at it.
importKnowledge_AssignFirst(kb, json) ==
  IF json.kind = "malformed"
  THEN [knowledgeBase |-> kb, thrown |-> "Failed to import knowledge: ${error.message}"]
  ELSE IF json.kind # "array"
  THEN [knowledgeBase |-> json.value,
        thrown |-> "Failed to import knowledge: Invalid knowledge data: expected an array"]
  ELSE [knowledgeBase |-> json.value, thrown |-> ""]

\* importKnowledge(json): the new knowledge base, or the error thrown
importKnowledge(kb, json) ==
  IF json.kind = "malformed"
  THEN [knowledgeBase |-> kb, thrown |-> "Failed to import knowledge: ${error.message}"]
  ELSE IF json.kind # "array"
  THEN [knowledgeBase |-> kb,
        thrown |-> "Failed to import knowledge: Invalid knowledge data: expected an array"]
  ELSE [knowledgeBase |-> json.value, thrown |-> ""]

(***************************************************************************)
(* waitForRateLimit of the integration instances                           *)
(***************************************************************************)
Instances == {"MoxfieldAPI", "MTGGoldfishAPI"}

\* this.rateLimit, ms between requests
rateLimit == [i \in Instances |-> IF i = "MoxfieldAPI" THEN 100 ELSE 200]

\* The part of waitForRateLimit before its await: the delay of the timer it
\* sets, or 0 where it sets none.
TimerDelay(i, t, last) == IF t - last < rateLimit[i] THEN rateLimit[i] - (t - last) ELSE 0

\* The timer that fires next among those that are due: the earliest, and
\* among equals the one set first.
FiresNext(timers, k, t) ==
  /\ timers[k] <= t
  /\ \A j \in 1..Len(timers) :
        /\ timers[j] >= timers[k]
        /\ timers[j] = timers[k] => j >= k

RemoveAt(q, k) == SubSeq(q, 1, k - 1) \o SubSeq(q, k + 1, Len(q))

(***************************************************************************)
(* The network collaborators and the analyzers that call them              *)
(*                                                                         *)
(* A request is rejected by fetch, or answered with a status outside 2xx,  *)
(* or answered with a body.  A body is given as what the code extracts     *)
(* from it: the records of a metagame page, the deck links of a player     *)
(* page, the commander of a deck page, the totalResults and data of a      *)
(* Moxfield search (0 and [] where the payload lacks them).                *)
(***************************************************************************)
Rejected(noBody) == [kind |-> "rejected", status |-> 0, body |-> noBody]
Status(n, noBody) == [kind |-> "status", status |-> n, body |-> noBody]
Delivered(body) == [kind |-> "ok", status |-> 200, body |-> body]

\* response.ok
Failed(outcome) == outcome.kind # "ok"

\* The message of the error fetchHTML / request throws.
RequestError(who, outcome) ==
  IF outcome.kind = "status"
  THEN [template |-> who, status |-> outcome.status]
  ELSE [template |-> "fetch failed", status |-> 0]

\* An error and the messages it wraps, outermost first.
Thrown(messages, requests) ==
  [thrown |-> TRUE, error |-> messages, requests |-> requests]

\* A request issued, by the template of its path and the id put into it.
Request(path, id, outcome) == [path |-> path, id |-> id, kind |-> outcome.kind]

\* A line of insights: a template and the values interpolated into it.
InsightLine(template, text, count) == [template |-> template, text |-> text, count |-> count]

\* MTGGoldfishAPI.getMetaDecks(format): a failed request is caught and
\* gives the empty list.
getMetaDecks(outcome) == IF Failed(outcome) THEN <<>> ELSE outcome.body

\* MetaAnalyzer.analyzeFormat(format); timestamp is the time of the call.
analyzeFormat(format, outcome, t) ==
  LET ds == getMetaDecks(outcome)
  IN  [thrown    |-> FALSE,
       requests  |-> << Request("/metagame/${format}", 0, outcome) >>,
       format    |-> format,
       timestamp |-> t,
       totalDecks |-> Len(ds),
       topDecks  |-> Slice(ds, 10),
       trends    |-> identifyTrends(ds),
       summary   |-> generateMetaSummary(ds)]

\* The loop of MTGGoldfishAPI.analyzeUserProfile over the first decks: a
\* deck whose request fails is logged and left out.
RECURSIVE DetailedDecks(_, _)
DetailedDecks(links, outcomes) ==
  IF outcomes = <<>> THEN <<>>
  ELSE (IF Failed(Head(outcomes)) THEN <<>>
        ELSE << [id |-> Head(links), commander |-> Head(outcomes).body] >>)
       \o DetailedDecks(Tail(links), Tail(outcomes))

RECURSIVE CountDeckCommanders(_, _)
CountDeckCommanders(commanders, ds) ==
  IF ds = <<>> THEN commanders
  ELSE CountDeckCommanders(IF Head(ds).commander # <<>>
                           THEN Increment(commanders, Head(ds).commander)
                           ELSE commanders,
                           Tail(ds))

generateMTGGoldfishInsights(profile) ==
  << InsightLine("Total decks on MTGGoldfish: ${}", <<>>, Num(profile.totalDecks)),
     InsightLine("Analyzed ${} recent decks", <<>>, Num(profile.analyzedDecks)) >>
  \o [i \in 1..Len(profile.topCommanders) |->
        InsightLine("Plays ${} (${} times)", profile.topCommanders[i].name,
                    profile.topCommanders[i].count)]

generateMTGGoldfishRecommendations(profile) ==
  (IF Len(profile.topCommanders) > 0
   THEN << Message("Consider building with less-played commanders for unique gameplay", <<>>) >>
   ELSE <<>>)
  \o << Message("Explore the current meta to discover powerful new strategies", <<>>),
        Message("Try budget builds to challenge your deck building creativity", <<>>) >>

\* The values ProfileAnalyzer.analyzeMTGGoldfishProfile(username) can end
\* with: page is the outcome of the player page request, outcomes those of
\* the deck requests, in order.
analyzeMTGGoldfishProfile(page, outcomes) ==
  IF Failed(page)
  THEN { Thrown(<< [template |-> "Failed to analyze MTGGoldfish profile", status |-> 0],
                   [template |-> "Failed to fetch user decks", status |-> 0],
                   RequestError("MTGGoldfish request failed: ${status}", page) >>,
                << Request("/player/${username}", 0, page) >>) }
  ELSE LET links == page.body
           detailedDecks == DetailedDecks(Slice(links, 5), outcomes)
           commanders == CountDeckCommanders(EmptyObject, detailedDecks)
           profile(sorted) ==
             [totalDecks    |-> Len(links),
              analyzedDecks |-> Len(detailedDecks),
              topCommanders |-> [i \in 1..Len(Slice(sorted, TopN)) |->
                                   [name |-> sorted[i][1], count |-> sorted[i][2]]]]
       IN  { [thrown          |-> FALSE,
              requests        |-> << Request("/player/${username}", 0, page) >>
                                  \o [i \in 1..Len(outcomes) |->
                                        Request("/deck/${id}", links[i], outcomes[i])],
              platform        |-> "MTGGoldfish",
              totalDecks      |-> profile(sorted).totalDecks,
              analyzedDecks   |-> profile(sorted).analyzedDecks,
              topCommanders   |-> profile(sorted).topCommanders,
              insights        |-> generateMTGGoldfishInsights(profile(sorted)),
              recommendations |-> generateMTGGoldfishRecommendations(profile(sorted))] :
             sorted \in SortOutcomes(ObjectEntries(commanders)) }

\* colors.split('').map(c => getColorName(c)).join('/')
formatColorIdentity(colors) ==
  IF colors = <<>> THEN <<"C","o","l","o","r","l","e","s","s">>
  ELSE JoinWith([i \in 1..Len(colors) |-> getColorName[colors[i]]], <<"/">>)

generateInsights(p) ==
  (IF p.favoriteFormat.defined /\ p.favoriteFormat.value # <<>>
   THEN << InsightLine("Primary format: ${}", p.favoriteFormat.value, Num(0)) >>
   ELSE <<>>)
  \o (IF Len(p.topCommanders) > 0
      THEN << InsightLine("Most played commander: ${} (${} decks)",
                          p.topCommanders[1].name, p.topCommanders[1].count) >>
           \o (IF Len(p.topCommanders) > 1
               THEN << InsightLine("Also frequently plays: ${}",
                                   JoinWith([i \in 1..Len(Slice(Tail(p.topCommanders), 2)) |->
                                               p.topCommanders[i + 1].name], CommaSpace),
                                   Num(0)) >>
               ELSE <<>>)
      ELSE <<>>)
  \o (IF Len(p.topColorCombos) > 0
      THEN << InsightLine("Favorite color combination: ${} (${} decks)",
                          formatColorIdentity(p.topColorCombos[1].colors),
                          p.topColorCombos[1].count) >>
      ELSE <<>>)

\* The values ProfileAnalyzer.analyzeMoxfieldProfile(username) can end
\* with, search being the outcome of the one request of getUserProfile.
analyzeMoxfieldProfile(search) ==
  IF Failed(search)
  THEN { Thrown(<< [template |-> "Failed to analyze Moxfield profile", status |-> 0],
                   [template |-> "Failed to fetch user profile", status |-> 0],
                   RequestError("Moxfield API error: ${status} ${statusText}", search) >>,
                << Request("/decks/search", 0, search) >>) }
  ELSE { [thrown          |-> FALSE,
          requests        |-> << Request("/decks/search", 0, search) >>,
          platform        |-> "Moxfield",
          totalDecks      |-> search.body.totalResults,
          patterns        |-> p,
          insights        |-> generateInsights(p),
          recommendations |-> generateRecommendations(p)] :
         p \in analyzeUserPatterns(search.body.data) }

(***************************************************************************)
(* Inputs                                                                  *)
(***************************************************************************)
MaxTextLen == 4
MaxLines == 3
MaxDeckLen == 3
MaxCalls == 2

\* Every text of at most MaxTextLen of these characters ...
TextAlphabet == {"0", "1", "x", " ", ":", "a", "\n"}

ShortTexts == UNION { [1..n -> TextAlphabet] : n \in 0..MaxTextLen }

\* ... and every text of at most MaxLines of these lines.
LineQtyX == <<"1","x"," ","S","o","l"," ","R","i","n","g">>  \* quantity and x
LineQtyLower == <<"2"," ","s","o","l"," ","r","i","n","g">>  \* quantity alone, other letter case
LineBare == <<"F","o","r","e","s","t">>  \* bare name
LineHeading == <<"#"," ","L","a","n","d","s">>  \* heading
LineBold == <<"*","*","R","a","m","p","*","*">>  \* bold heading
LineStar == <<"*","a","b">>  \* one star only
LineWordName == <<"B","a","d","l","a","n","d","s">>  \* a card whose name contains a category word
LineQtyWordName == <<"2"," ","B","a","d","l","a","n","d","s">>  \* the same behind a quantity
LineLabel == <<"L","a","n","d","s"," ","(","3","6",")",":">>  \* section label
LineBlanks == <<"\t","3","X"," "," ","O","p","t","\r">>  \* tab, upper-case X, two spaces, carriage return
LineReturn == <<"1"," ","O","p","t","\r","1"," ","O","w">>  \* carriage return inside the line

SampleLines ==
  { LineQtyX, LineQtyLower, LineBare, LineHeading,
    LineBold, LineStar, LineWordName, LineQtyWordName,
    LineLabel, LineBlanks, LineReturn }

SampleTexts ==
  { Join(ls) : ls \in UNION { [1..n -> SampleLines] : n \in 1..MaxLines } }

Texts == ShortTexts \cup SampleTexts

\* Card names: a card in two letter cases, a basic land, two cards the land
\* heuristic counts, and a name that is also a property of Object.prototype.
SolRing == <<"S","o","l"," ","R","i","n","g">>
SolRingLower == <<"s","o","l"," ","r","i","n","g">>
Forest == <<"F","o","r","e","s","t">>
LandTax == <<"L","a","n","d"," ","T","a","x">>
Guildgate == <<"I","z","z","e","t"," ","G","u","i","l","d","g","a","t","e">>
Constructor == <<"C","o","n","s","t","r","u","c","t","o","r">>

CardEntries ==
     { [quantity |-> q, name |-> SolRing] : q \in {0, 1, 2} }
  \cup { [quantity |-> 1, name |-> SolRingLower] }
  \cup { [quantity |-> q, name |-> Forest] : q \in {1, 30, 98} }
  \cup { [quantity |-> q, name |-> LandTax] : q \in {1, 26} }
  \cup { [quantity |-> 1, name |-> Guildgate] }
  \cup { [quantity |-> 2, name |-> Constructor] }

Decks == UNION { [1..n -> CardEntries] : n \in 0..MaxDeckLen }

NoOptions == [given |-> {}, expectedSize |-> 0, isMonoColor |-> FALSE]

OptionValues ==
  { NoOptions,
    [given |-> {"isMonoColor"}, expectedSize |-> 0, isMonoColor |-> TRUE],
    [given |-> {"expectedSize", "isMonoColor"}, expectedSize |-> 3, isMonoColor |-> TRUE],
    [given |-> {"expectedSize", "isMonoColor"}, expectedSize |-> 100, isMonoColor |-> FALSE] }

NoResult == [none |-> TRUE]

\* The values of the variables a specification does not use.
IdleParser ==
  /\ deckText = <<>>
  /\ options = NoOptions
  /\ deck = <<>>
  /\ cards = <<>>
  /\ prev = <<>>
  /\ formatted = <<>>
  /\ calls = 0

IdleProfile ==
  /\ given = <<>>
  /\ decks = <<>>
  /\ patterns = NoResult
  /\ recommendations = <<>>

IdleHistory == userHistory = <<>> /\ historyBefore = <<>>

IdleMeta == metaDecks = <<>>

IdleNetwork == network = <<>>

IdleLearner == knowledgeBase = <<>> /\ knowledgeBefore = <<>>

IdleLimiter ==
  /\ instance = ""
  /\ now = 0
  /\ lastRequestTime = 0
  /\ sleeping = <<>>
  /\ issued = <<>>

IdleAnalyzers ==
  IdleProfile /\ IdleHistory /\ IdleMeta /\ IdleNetwork /\ IdleLearner /\ IdleLimiter

(***************************************************************************)
(* The calls                                                               *)
(***************************************************************************)
InitParse ==
  /\ pc = "text"
  /\ deckText \in Texts
  /\ options = NoOptions
  /\ deck = <<>>
  /\ cards = <<>>
  /\ prev = <<>>
  /\ formatted = <<>>
  /\ calls = 0
  /\ result = NoResult
  /\ IdleAnalyzers

InitDeck ==
  /\ pc = "deck"
  /\ deckText = <<>>
  /\ options = NoOptions
  /\ deck \in Decks
  /\ cards = deck
  /\ prev = <<>>
  /\ formatted = <<>>
  /\ calls = 0
  /\ result = NoResult
  /\ IdleAnalyzers

\* cards = parseDeckList(deckText)
ParseDeckList ==
  /\ pc = "text"
  /\ cards' = parseDeckList(deckText)
  /\ pc' = "parseDeckList"
  /\ UNCHANGED <<deckText, options, deck, prev, formatted, calls, result, analyzerVars>>

\* result = validateDeckList(deckText, o)
ValidateDeckList(o) ==
  /\ pc = "text"
  /\ result' = validateDeckList(deckText, o)
  /\ cards' = result'.cards
  /\ options' = o
  /\ pc' = "validateDeckList"
  /\ UNCHANGED <<deckText, deck, prev, formatted, calls, analyzerVars>>

\* result = validateParsedDeck(cards, o)
ValidateParsedDeck(o) ==
  /\ pc \in {"deck", "removeDuplicates"}
  /\ result' = validateParsedDeck(cards, o)
  /\ options' = o
  /\ pc' = "validateParsedDeck"
  /\ UNCHANGED <<deckText, deck, cards, prev, formatted, calls, analyzerVars>>

\* cards = removeDuplicates(cards)
RemoveDuplicates ==
  /\ pc \in {"deck", "removeDuplicates", "validateParsedDeck"}
  /\ calls < MaxCalls
  /\ prev' = cards
  /\ cards' = removeDuplicates(cards)
  /\ calls' = calls + 1
  /\ options' = NoOptions
  /\ result' = NoResult
  /\ pc' = "removeDuplicates"
  /\ UNCHANGED <<deckText, deck, formatted, analyzerVars>>

\* formatted = formatDeckList(cards), on the list parseDeckList returned
FormatDeckList ==
  /\ pc = "parseDeckList"
  /\ formatted' = formatDeckList(cards)
  /\ pc' = "formatDeckList"
  /\ UNCHANGED <<deckText, options, deck, cards, prev, calls, result, analyzerVars>>

\* cards = parseDeckList(formatted)
ReparseDeckList ==
  /\ pc = "formatDeckList"
  /\ prev' = cards
  /\ cards' = parseDeckList(formatted)
  /\ pc' = "reparseDeckList"
  /\ UNCHANGED <<deckText, options, deck, formatted, calls, result, analyzerVars>>

NextParse ==
  \/ ParseDeckList
  \/ FormatDeckList
  \/ ReparseDeckList
  \/ \E o \in OptionValues : ValidateDeckList(o)

NextDeck ==
  \/ \E o \in OptionValues : ValidateParsedDeck(o)
  \/ RemoveDuplicates

SpecParse == InitParse /\ [][NextParse]_vars

SpecDeck == InitDeck /\ [][NextDeck]_vars

(***************************************************************************)
(* Deck records handed to analyzeUserPatterns                              *)
(***************************************************************************)
MaxDecks == 3

Atraxa == <<"A","t","r","a","x","a">>
Breya == <<"B","r","e","y","a">>
Chulane == <<"C","h","u","l","a","n","e">>
Daretti == <<"D","a","r","e","t","t","i">>
Edgar == <<"E","d","g","a","r">>
Feather == <<"F","e","a","t","h","e","r">>
\* a name that is also a property of Object.prototype, and a name that is a
\* canonical array index
ConstructorName == <<"c","o","n","s","t","r","u","c","t","o","r">>
Seven == <<"7">>

FormatCommander == <<"c","o","m","m","a","n","d","e","r">>
FormatModern == <<"m","o","d","e","r","n">>

PatternDeck(f, cs, ci) == [format |-> f, commanders |-> cs, colorIdentity |-> ci]

ColorDeck(ci) == PatternDeck(<<>>, <<>>, ci)

DeckRecords ==
  { PatternDeck(FormatCommander, <<Atraxa, Breya>>, <<"W","U">>),
    PatternDeck(FormatCommander, <<Chulane, Daretti>>, <<"G","W","U">>),
    PatternDeck(FormatModern, <<Edgar, Feather>>, <<"B">>),
    PatternDeck(<<>>, <<Breya>>, <<"U","W">>),
    PatternDeck(FormatModern, << <<>> >>, <<>>),
    PatternDeck(FormatCommander, <<ConstructorName>>, <<"R">>),
    PatternDeck(<<>>, <<Seven>>, <<>>),
    ColorDeck(<<"R","G">>) }

\* Lists with more than five different color combinations.
ManyColorDecks ==
  { << ColorDeck(<<"W","U">>), ColorDeck(<<"W">>), ColorDeck(<<"U">>),
       ColorDeck(<<"B">>), ColorDeck(<<"R">>), ColorDeck(<<"G">>) >>,
    << ColorDeck(<<"W","U">>), ColorDeck(<<"W">>), ColorDeck(<<"U">>),
       ColorDeck(<<"B">>), ColorDeck(<<"R">>), ColorDeck(<<"G">>), ColorDeck(<<"G">>) >> }

DeckLists == UNION { [1..n -> DeckRecords] : n \in 0..MaxDecks } \cup ManyColorDecks

(***************************************************************************)
(* The profile calls                                                       *)
(***************************************************************************)
InitProfile ==
  /\ pc = "decks"
  /\ given \in DeckLists
  /\ decks = given
  /\ patterns = NoResult
  /\ recommendations = <<>>
  /\ result = NoResult
  /\ IdleParser
  /\ IdleHistory
  /\ IdleMeta
  /\ IdleNetwork
  /\ IdleLearner
  /\ IdleLimiter

\* patterns = analyzeUserPatterns(decks)
AnalyzeUserPatterns ==
  /\ pc = "decks"
  /\ patterns' \in analyzeUserPatterns(decks)
  /\ decks' = PatternCounts(decks).decks
  /\ pc' = "analyzeUserPatterns"
  /\ UNCHANGED <<given, recommendations, result, parserVars, historyVars, metaVars, networkVars, learnerVars, limiterVars>>

\* recommendations = profileAnalyzer.generateRecommendations(patterns)
GenerateRecommendations ==
  /\ pc = "analyzeUserPatterns"
  /\ recommendations' = generateRecommendations(patterns)
  /\ pc' = "generateRecommendations"
  /\ UNCHANGED <<given, decks, patterns, result, parserVars, historyVars, metaVars, networkVars, learnerVars, limiterVars>>

NextProfile ==
  \/ AnalyzeUserPatterns
  \/ GenerateRecommendations

SpecProfile == InitProfile /\ [][NextProfile]_vars

(***************************************************************************)
(* Decks handed to addToHistory, texts handed to importHistory             *)
(***************************************************************************)
MaxHistory == 2

Aggro == commonStrategies[1]
Control == commonStrategies[2]
\* a card name that is a canonical array index (parseDeckList('100') names
\* a card so)
Hundred == <<"1","0","0">>

HistoryDeck(c, s, k, cs) == [commander |-> c, strategy |-> s, colors |-> k, cards |-> cs]

HistoryDecks ==
  { HistoryDeck(Atraxa, Aggro, Defined(<<"W","U">>), << CardString(SolRing), CardString(Hundred) >>),
    HistoryDeck(Breya, Control, Defined(<<"B">>), << CardObject(SolRing), CardString(Hundred) >>),
    HistoryDeck(Atraxa, Aggro, Undefined, <<>>),
    HistoryDeck(<<>>, <<>>, Defined(<<>>), << CardString(Forest), CardString(Forest) >>),
    HistoryDeck(ConstructorName, Control, Defined(<<"G","R">>),
                << CardString(Forest), CardString(ConstructorName) >>),
    HistoryDeck(Breya, Aggro, Defined(<<"W","U","B","R","G">>), << CardString(SolRing) >>) }

\* An exported history of three decks, the commander and the strategy of
\* the first played once, those of the others twice.
ThreeDecks ==
  << HistoryEntry(HistoryDeck(Breya, Control, Defined(<<"U","B">>), <<>>), "toISOString"),
     HistoryEntry(HistoryDeck(Atraxa, Aggro, Defined(<<"W","U">>), <<>>), "toISOString"),
     HistoryEntry(HistoryDeck(Atraxa, Aggro, Defined(<<"G","W","U","B">>), <<>>), "toISOString") >>

ImportTexts ==
  { JsonMalformed, JsonOther, JsonArray(<<>>), JsonArray(SubSeq(ThreeDecks, 1, 1)),
    JsonArray(ThreeDecks) }

(***************************************************************************)
(* The RecommendationEngine calls                                          *)
(***************************************************************************)
InitHistory ==
  /\ pc = "engine"
  /\ userHistory = <<>>
  /\ historyBefore = <<>>
  /\ result = NoResult
  /\ IdleParser
  /\ IdleProfile
  /\ IdleMeta
  /\ IdleNetwork
  /\ IdleLearner
  /\ IdleLimiter

\* recommendationEngine.addToHistory(d)
AddToHistory(d, t) ==
  /\ Len(userHistory) < MaxHistory
  /\ historyBefore' = userHistory
  /\ userHistory' = addToHistory(userHistory, d, t)
  /\ result' = NoResult
  /\ pc' = "addToHistory"
  /\ UNCHANGED <<parserVars, profileVars, metaVars, networkVars, learnerVars, limiterVars>>

\* recommendationEngine.clearHistory()
ClearHistory ==
  /\ historyBefore' = userHistory
  /\ userHistory' = <<>>
  /\ result' = NoResult
  /\ pc' = "clearHistory"
  /\ UNCHANGED <<parserVars, profileVars, metaVars, networkVars, learnerVars, limiterVars>>

\* recommendationEngine.importHistory(json)
ImportHistory(json) ==
  /\ historyBefore' = userHistory
  /\ userHistory' = importHistory(userHistory, json).userHistory
  /\ result' = [thrown |-> importHistory(userHistory, json).thrown]
  /\ pc' = "importHistory"
  /\ UNCHANGED <<parserVars, profileVars, metaVars, networkVars, learnerVars, limiterVars>>

\* result = recommendationEngine.analyzeHistory()
AnalyzeHistory ==
  /\ historyBefore' = userHistory
  /\ result' \in analyzeHistory(userHistory)
  /\ userHistory' = HistoryCounts(userHistory).history
  /\ pc' = "analyzeHistory"
  /\ UNCHANGED <<parserVars, profileVars, metaVars, networkVars, learnerVars, limiterVars>>

\* result = recommendationEngine.identifyStaples()
IdentifyStaples ==
  /\ historyBefore' = userHistory
  /\ result' \in identifyStaples(userHistory)
  /\ userHistory' = userHistory
  /\ pc' = "identifyStaples"
  /\ UNCHANGED <<parserVars, profileVars, metaVars, networkVars, learnerVars, limiterVars>>

\* result = recommendationEngine.identifyGaps(profileAnalysis), which calls
\* analyzeHistory
IdentifyGaps ==
  /\ historyBefore' = userHistory
  /\ result' \in identifyGaps(userHistory)
  /\ userHistory' = HistoryCounts(userHistory).history
  /\ pc' = "identifyGaps"
  /\ UNCHANGED <<parserVars, profileVars, metaVars, networkVars, learnerVars, limiterVars>>

\* result = recommendationEngine.generateRecommendations(options), which
\* calls analyzeHistory, identifyStaples and identifyGaps
EngineGenerateRecommendations ==
  /\ historyBefore' = userHistory
  /\ result' \in Engine_generateRecommendations(userHistory)
  /\ userHistory' = HistoryCounts(userHistory).history
  /\ pc' = "engine.generateRecommendations"
  /\ UNCHANGED <<parserVars, profileVars, metaVars, networkVars, learnerVars, limiterVars>>

\* result = recommendationEngine.suggestNewArchetype(), which calls
\* analyzeHistory and identifyGaps
SuggestNewArchetype ==
  /\ historyBefore' = userHistory
  /\ result' \in suggestNewArchetype(userHistory)
  /\ userHistory' = HistoryCounts(userHistory).history
  /\ pc' = "suggestNewArchetype"
  /\ UNCHANGED <<parserVars, profileVars, metaVars, networkVars, learnerVars, limiterVars>>

\* result = recommendationEngine.exportHistory()
ExportHistory ==
  /\ historyBefore' = userHistory
  /\ result' = exportHistory(userHistory)
  /\ userHistory' = userHistory
  /\ pc' = "exportHistory"
  /\ UNCHANGED <<parserVars, profileVars, metaVars, networkVars, learnerVars, limiterVars>>

\* result = recommendationEngine.suggestBudgetSubstitutions(cardList)
SuggestBudgetSubstitutions(cardList) ==
  /\ historyBefore' = userHistory
  /\ result' = suggestBudgetSubstitutions(cardList)
  /\ userHistory' = userHistory
  /\ pc' = "suggestBudgetSubstitutions"
  /\ UNCHANGED <<parserVars, profileVars, metaVars, networkVars, learnerVars, limiterVars>>

NextHistory ==
  \/ \E d \in HistoryDecks, t \in Timestamps : AddToHistory(d, t)
  \/ ClearHistory
  \/ \E json \in ImportTexts : ImportHistory(json)
  \/ AnalyzeHistory
  \/ IdentifyStaples
  \/ IdentifyGaps
  \/ EngineGenerateRecommendations
  \/ SuggestNewArchetype
  \/ \E cardList \in {<<>>, << SolRing, Forest >>} : SuggestBudgetSubstitutions(cardList)
  \/ ExportHistory

SpecHistory == InitHistory /\ [][NextHistory]_vars

(***************************************************************************)
(* Meta-deck records handed to MetaAnalyzer                                *)
(***************************************************************************)
MaxShareLen == 3
MaxMeta == 4

\* Every share text of at most MaxShareLen of these characters, in a list
\* of one record ...
ShareAlphabet == {"4", "5", "0", ".", "%", " ", "-", "x"}

ShortShares == UNION { [1..n -> ShareAlphabet] : n \in 0..MaxShareLen }

\* ... and every list of at most MaxMeta records with one of these shares.
SampleShares == { <<"4","%">>, <<"4">>, <<"5",".","2","%">>, <<>> }

\* The i-th record of a list is named by the i-th letter.
MetaDeckName(i) == <<UpperChars[i]>>

MetaLists ==
  { << [name |-> MetaDeckName(1), metaShare |-> s] >> : s \in ShortShares }
  \cup UNION { { [i \in 1..n |-> [name |-> MetaDeckName(i), metaShare |-> f[i]]] :
                 f \in [1..n -> SampleShares] } : n \in 0..MaxMeta }

(***************************************************************************)
(* The MetaAnalyzer calls                                                  *)
(***************************************************************************)
InitMeta ==
  /\ pc = "metaDecks"
  /\ metaDecks \in MetaLists
  /\ result = NoResult
  /\ IdleParser
  /\ IdleProfile
  /\ IdleHistory
  /\ IdleNetwork
  /\ IdleLearner
  /\ IdleLimiter

\* result = metaAnalyzer.identifyTrends(metaDecks)
IdentifyTrends ==
  /\ pc = "metaDecks"
  /\ result' = identifyTrends(metaDecks)
  /\ pc' = "identifyTrends"
  /\ UNCHANGED <<metaDecks, parserVars, profileVars, historyVars, networkVars, learnerVars, limiterVars>>

\* result = metaAnalyzer.generateMetaSummary(metaDecks)
GenerateMetaSummary ==
  /\ pc = "metaDecks"
  /\ result' = generateMetaSummary(metaDecks)
  /\ pc' = "generateMetaSummary"
  /\ UNCHANGED <<metaDecks, parserVars, profileVars, historyVars, networkVars, learnerVars, limiterVars>>

NextMeta ==
  \/ IdentifyTrends
  \/ GenerateMetaSummary

SpecMeta == InitMeta /\ [][NextMeta]_vars

(***************************************************************************)
(* Calls of the analyzers over the network (SpecNet)                       *)
(***************************************************************************)
MaxLinks == 6

\* Outcomes of GET /metagame/${format}
MetaPages ==
  { Rejected(<<>>), Status(500, <<>>) }
  \cup UNION { { Delivered([i \in 1..n |-> [name |-> MetaDeckName(i), metaShare |-> f[i]]]) :
                 f \in [1..n -> SampleShares] } : n \in 0..3 }

\* Outcomes of GET /player/${username}: the ids of the deck links found.
PlayerPages ==
  { Rejected(<<>>), Status(404, <<>>) }
  \cup { Delivered([i \in 1..n |-> i]) : n \in 0..MaxLinks }

\* Outcomes of GET /deck/${id}: the commander parseDeckHTML finds, if any.
DeckPages ==
  { Rejected(<<>>), Status(500, <<>>), Delivered(<<>>), Delivered(Atraxa), Delivered(Breya) }

NoSearch == [totalResults |-> 0, data |-> <<>>]

\* Outcomes of GET /decks/search
Searches ==
  { Rejected(NoSearch), Status(503, NoSearch) }
  \cup { Delivered([totalResults |-> Len(ds), data |-> ds]) : ds \in DeckLists }

InitNet ==
  /\ pc = "analyzers"
  /\ network = <<>>
  /\ result = NoResult
  /\ IdleParser
  /\ IdleProfile
  /\ IdleHistory
  /\ IdleMeta
  /\ IdleLearner
  /\ IdleLimiter

\* result = await metaAnalyzer.analyzeFormat(format)
AnalyzeFormat(outcome, t) ==
  /\ pc = "analyzers"
  /\ result' = analyzeFormat("commander", outcome, t)
  /\ network' = result'.requests
  /\ pc' = "analyzeFormat"
  /\ UNCHANGED <<parserVars, profileVars, historyVars, metaVars, learnerVars, limiterVars>>

\* result = await profileAnalyzer.analyzeMoxfieldProfile(username)
AnalyzeMoxfieldProfile(search) ==
  /\ pc = "analyzers"
  /\ result' \in analyzeMoxfieldProfile(search)
  /\ network' = result'.requests
  /\ pc' = "analyzeMoxfieldProfile"
  /\ UNCHANGED <<parserVars, profileVars, historyVars, metaVars, learnerVars, limiterVars>>

\* result = await profileAnalyzer.analyzeMTGGoldfishProfile(username)
AnalyzeMTGGoldfishProfile(page, outcomes) ==
  /\ pc = "analyzers"
  /\ result' \in analyzeMTGGoldfishProfile(page, outcomes)
  /\ network' = result'.requests
  /\ pc' = "analyzeMTGGoldfishProfile"
  /\ UNCHANGED <<parserVars, profileVars, historyVars, metaVars, learnerVars, limiterVars>>

NextNet ==
  \/ \E outcome \in MetaPages, t \in Timestamps : AnalyzeFormat(outcome, t)
  \/ \E search \in Searches : AnalyzeMoxfieldProfile(search)
  \/ \E page \in PlayerPages :
       \E outcomes \in [1..Min(5, Len(page.body)) -> DeckPages] :
         AnalyzeMTGGoldfishProfile(page, outcomes)

SpecNet == InitNet /\ [][NextNet]_vars

(***************************************************************************)
(* Exports and imports of the two stores (SpecImport)                      *)
(***************************************************************************)
Knowledge(title, commander, strategy) ==
  [title |-> title, author |-> <<"A">>, commander |-> commander, strategy |-> strategy]

KnowledgeTexts ==
  { JsonMalformed, JsonOther, JsonArray(<<>>),
    JsonArray(<< Knowledge(<<"1">>, Atraxa, Aggro) >>),
    JsonArray(<< Knowledge(<<"1">>, Atraxa, Aggro), Knowledge(<<"2">>, Breya, Control) >>) }

InitImport ==
  /\ pc = "stores"
  /\ userHistory = <<>>
  /\ historyBefore = <<>>
  /\ knowledgeBase = <<>>
  /\ knowledgeBefore = <<>>
  /\ result = NoResult
  /\ IdleParser
  /\ IdleProfile
  /\ IdleMeta
  /\ IdleNetwork
  /\ IdleLimiter

\* result = youtubeLearner.exportKnowledge()
ExportKnowledge ==
  /\ knowledgeBefore' = knowledgeBase
  /\ result' = exportKnowledge(knowledgeBase)
  /\ knowledgeBase' = knowledgeBase
  /\ pc' = "exportKnowledge"
  /\ UNCHANGED <<parserVars, profileVars, historyVars, metaVars, networkVars, limiterVars>>

\* youtubeLearner.importKnowledge(json)
ImportKnowledge(json) ==
  /\ knowledgeBefore' = knowledgeBase
  /\ knowledgeBase' = importKnowledge(knowledgeBase, json).knowledgeBase
  /\ result' = [thrown |-> importKnowledge(knowledgeBase, json).thrown]
  /\ pc' = "importKnowledge"
  /\ UNCHANGED <<parserVars, profileVars, historyVars, metaVars, networkVars, limiterVars>>

NextImport ==
  \/ ClearHistory
  \/ ExportHistory
  \/ \E json \in ImportTexts : ImportHistory(json)
  \/ ExportKnowledge
  \/ \E json \in KnowledgeTexts \cup {exportKnowledge(knowledgeBase)} : ImportKnowledge(json)

SpecImport == InitImport /\ [][NextImport]_vars

(***************************************************************************)
(* Request calls on one integration instance (SpecLimiter)                 *)
(***************************************************************************)
MaxRequests == 3
MaxElapsed == 400

\* Date.now() when the first call is made, far from the initial
\* lastRequestTime of 0.
Epoch == 1000

\* The time that passes between two steps of the event loop, in ms.
Delays == {50, 100}

InitLimiter ==
  /\ pc = "instance"
  /\ instance \in Instances
  /\ now = Epoch
  /\ lastRequestTime = 0
  /\ sleeping = <<>>
  /\ issued = <<>>
  /\ result = NoResult
  /\ IdleParser
  /\ IdleProfile
  /\ IdleHistory
  /\ IdleMeta
  /\ IdleNetwork
  /\ IdleLearner

\* A call of request / fetchHTML begins: waitForRateLimit runs up to its
\* await, or, where it does not wait, to its end and the request goes out.
BeginRequest ==
  /\ Len(issued) + Len(sleeping) < MaxRequests
  /\ IF TimerDelay(instance, now, lastRequestTime) > 0
     THEN /\ sleeping' = Append(sleeping, now + TimerDelay(instance, now, lastRequestTime))
          /\ UNCHANGED <<lastRequestTime, issued>>
     ELSE /\ lastRequestTime' = now
          /\ issued' = Append(issued, now)
          /\ UNCHANGED sleeping
  /\ pc' = "waitForRateLimit"
  /\ UNCHANGED <<instance, now, result, parserVars, profileVars, historyVars, metaVars,
                 networkVars, learnerVars>>

\* The timer of a waiting call fires: waitForRateLimit sets lastRequestTime
\* and returns, and the request goes out.
TimerFires(k) ==
  /\ FiresNext(sleeping, k, now)
  /\ sleeping' = RemoveAt(sleeping, k)
  /\ lastRequestTime' = now
  /\ issued' = Append(issued, now)
  /\ pc' = "fetch"
  /\ UNCHANGED <<instance, now, result, parserVars, profileVars, historyVars, metaVars,
                 networkVars, learnerVars>>

\* Time passes.
Tick(d) ==
  /\ now + d <= Epoch + MaxElapsed
  /\ now' = now + d
  /\ pc' = "tick"
  /\ UNCHANGED <<instance, lastRequestTime, sleeping, issued, result, parserVars, profileVars,
                 historyVars, metaVars, networkVars, learnerVars>>

NextLimiter ==
  \/ BeginRequest
  \/ \E k \in 1..Len(sleeping) : TimerFires(k)
  \/ \E d \in Delays : Tick(d)

SpecLimiter == InitLimiter /\ [][NextLimiter]_vars


(***************************************************************************)
(* Properties of validateParsedDeck and removeDuplicates (SpecDeck)        *)
(***************************************************************************)
RECURSIVE SumSeq(_)
SumSeq(q) == IF Len(q) = 0 THEN 0 ELSE q[1] + SumSeq(SubSeq(q, 2, Len(q)))

\* The quantities of cs, and those of the entries at the indices in I.
QuantitiesAt(cs, I) ==
  [i \in 1..Len(cs) |-> IF i \in I THEN cs[i].quantity ELSE 0]

TotalQuantity(cs) == SumSeq(QuantitiesAt(cs, 1..Len(cs)))

BasicLandNames == { BASIC_LANDS[i] : i \in 1..Len(BASIC_LANDS) }

NonBasicAt(cs) == { i \in 1..Len(cs) : toLowerCase(cs[i].name) \notin BasicLandNames }

\* The summed quantity of the non-basic-land entries named n, whatever the case.
SummedQuantity(cs, n) ==
  SumSeq(QuantitiesAt(cs, { i \in NonBasicAt(cs) : toLowerCase(cs[i].name) = n }))

\* The names a singleton deck may not hold: summed quantity above 1.
RepeatedNames(cs) ==
  { n \in { toLowerCase(cs[i].name) : i \in NonBasicAt(cs) } : SummedQuantity(cs, n) > 1 }

ErrorsOfKind(r, kinds) == SelectSeq(r.errors, LAMBDA e : e.kind \in kinds)

ExpectedSizeGiven(o) == IF "expectedSize" \in o.given THEN o.expectedSize ELSE 100

\* C1: validateParsedDeck reports as duplicates exactly the non-basic-land
\* names whose quantities, summed case-insensitively, exceed 1: one
\* {name, count} each with count the sum, one duplicate error each, and
\* never a basic land.
C1_DuplicatesExact ==
  pc = "validateParsedDeck" =>
    LET dups == result.duplicates
        errs == ErrorsOfKind(result, {"duplicate"})
        D    == RepeatedNames(cards)
    IN  /\ { dups[k].name : k \in 1..Len(dups) } = D
        /\ Len(dups) = Cardinality(D)
        /\ \A k \in 1..Len(dups) : dups[k].count = SummedQuantity(cards, dups[k].name)
        /\ { errs[k].name : k \in 1..Len(errs) } = D
        /\ Len(errs) = Cardinality(D)
        /\ \A k \in 1..Len(dups) : dups[k].name \notin BasicLandNames

\* C2: isValid holds iff errors is empty, which is the case exactly when
\* totalCards equals expectedSize and no non-basic-land name has a summed
\* quantity above 1; a land warning never makes isValid false.
C2_ValidIffNoFinding ==
  pc = "validateParsedDeck" =>
    /\ result.isValid <=> (result.errors = <<>>)
    /\ (result.errors = <<>>) <=>
          /\ result.totalCards = ExpectedSizeGiven(options)
          /\ RepeatedNames(cards) = {}

\* C3: totalCards is the sum of the quantities of all entries, basic lands
\* included; errors holds exactly one deck-size error when totalCards differs
\* from expectedSize ("short" when less, "over" when more) and none when they
\* are equal; expectedSize is 100 when the option is not given.
C3_TotalAndSizeError ==
  pc = "validateParsedDeck" =>
    LET size     == ErrorsOfKind(result, {"short", "over"})
        expected == ExpectedSizeGiven(options)
    IN  /\ result.totalCards = TotalQuantity(cards)
        /\ Len(size) = IF result.totalCards = expected THEN 0 ELSE 1
        /\ result.totalCards < expected => size[1].kind = "short" /\ size[1].expected = expected
        /\ result.totalCards > expected => size[1].kind = "over" /\ size[1].expected = expected

\* A deck of exactly 100 cards, 98 of them basic lands, checked against the
\* default size.
C3_Witness ==
  /\ pc = "validateParsedDeck"
  /\ "expectedSize" \notin options.given
  /\ result.totalCards = 100
  /\ \E i \in 1..Len(cards) : cards[i].name = Forest /\ cards[i].quantity = 98
  /\ ErrorsOfKind(result, {"short", "over"}) = <<>>

\* The names the land heuristic counts.
CountsAsLand(name) ==
  LET n == toLowerCase(name)
  IN  \/ n \in BasicLandNames
      \/ includes(n, <<"l","a","n","d">>)
      \/ includes(n, <<"t","e","m","p","l","e">>)
      \/ includes(n, <<"f","o","u","n","t","a","i","n">>)
      \/ includes(n, <<"s","h","o","c","k">>)
      \/ includes(n, <<"g","a","t","e">>)

\* C8: landCount is the summed quantity of the entries whose lower-case name
\* is a basic land or contains land, temple, fountain, shock or gate; warnings
\* holds exactly one land warning when landCount < expectedLands - 5
\* (expectedLands 32 with isMonoColor, 36 otherwise) and none otherwise; the
\* land check adds no error.
C8_LandCountAndWarning ==
  pc = "validateParsedDeck" =>
    LET mono          == "isMonoColor" \in options.given /\ options.isMonoColor
        expectedLands == IF mono THEN 32 ELSE 36
    IN  /\ result.landCount =
             SumSeq(QuantitiesAt(cards, { i \in 1..Len(cards) : CountsAsLand(cards[i].name) }))
        /\ IF result.landCount < expectedLands - 5
           THEN /\ Len(result.warnings) = 1
                /\ result.warnings[1].kind = "fewLands"
                /\ result.warnings[1].expected = expectedLands
           ELSE result.warnings = <<>>
        /\ \A k \in 1..Len(result.errors) :
              result.errors[k].kind \in {"duplicate", "short", "over"}

\* A mono-colour deck with exactly 27 detected lands, the fewest that draw no
\* warning, of which some are found by a substring and some are basic.
C8_Witness ==
  /\ pc = "validateParsedDeck"
  /\ "isMonoColor" \in options.given /\ options.isMonoColor
  /\ result.landCount = 27
  /\ result.warnings = <<>>
  /\ \E i \in 1..Len(cards) : cards[i].name = LandTax
  /\ \E i \in 1..Len(cards) : cards[i].name = Forest

\* The entries removeDuplicates keeps: every basic land, and the first entry
\* of each other name compared case-insensitively.
KeptAt(cs) ==
  { i \in 1..Len(cs) :
      \/ i \notin NonBasicAt(cs)
      \/ \A j \in 1..(i - 1) : toLowerCase(cs[j].name) # toLowerCase(cs[i].name) }

\* C9: removeDuplicates returns, in input order, every basic-land entry
\* unchanged and, for each other name, its first entry with quantity 1; the
\* list it was given is the caller's deck as it was.
C9_FirstOccurrenceKept ==
  pc = "removeDuplicates" =>
    LET K == KeptAt(prev)
    IN  /\ Len(cards) = Cardinality(K)
        /\ calls = 1 => prev = deck
        /\ \A k \in 1..Len(cards) :
              LET i == CHOOSE i \in K : Cardinality({ j \in K : j < i }) = k - 1
              IN  /\ cards[k].name = prev[i].name
                  /\ cards[k].quantity =
                       IF i \in NonBasicAt(prev) THEN 1 ELSE prev[i].quantity

\* A card of quantity 2, forced to 1, a basic land of quantity 30, kept as it
\* is, and the card again in another letter case, dropped.
C9_Witness ==
  /\ pc = "removeDuplicates"
  /\ calls = 1
  /\ prev = << [quantity |-> 2, name |-> SolRing],
               [quantity |-> 30, name |-> Forest],
               [quantity |-> 1, name |-> SolRingLower] >>
  /\ cards = << [quantity |-> 1, name |-> SolRing],
                [quantity |-> 30, name |-> Forest] >>

\* C10: removeDuplicates is idempotent: applied to its own result it returns
\* the same names, quantities and order.
C10_Idempotent ==
  (pc = "removeDuplicates" /\ calls >= 2) => cards = prev

\* The second call, on the result of a call that dropped or changed entries.
C10_Witness ==
  /\ pc = "removeDuplicates"
  /\ calls = 2
  /\ cards = prev
  /\ cards # deck
  /\ \E i \in 1..Len(cards) : cards[i].name = Forest /\ cards[i].quantity = 30


(***************************************************************************)
(* Properties of parseDeckList and validateDeckList (SpecParse)            *)
(***************************************************************************)
RECURSIVE Pow10(_)
Pow10(n) == IF n = 0 THEN 1 ELSE 10 * Pow10(n - 1)

\* The number a string of decimal digits denotes.
DecimalValue(ds) ==
  SumSeq([i \in 1..Len(ds) |->
            (CHOOSE v \in 0..9 : Digits[v + 1] = ds[i]) * Pow10(Len(ds) - i)])

\* The ways to read the trimmed line t as <int>, an optional x, whitespace
\* and <name>: the digits are t[1..d], the name is t[n..Len(t)], a run of
\* characters on one line that starts and ends with a visible character.
ShapeSplits(t) ==
  { p \in (1..Len(t)) \X (1..Len(t)) :
      LET d == p[1]
          n == p[2]
      IN  /\ \A i \in 1..d : t[i] \in DigitSet
          /\ \E x \in {0, 1} :
                /\ x = 1 => d + 1 < n /\ t[d + 1] \in {"x", "X"}
                /\ d + x + 1 < n
                /\ \A i \in (d + x + 1)..(n - 1) : IsWhiteSpace(t[i])
          /\ ~IsWhiteSpace(t[n])
          /\ \A i \in n..Len(t) : t[i] \notin {"\n", "\r"} }

HasShape(t) == ShapeSplits(t) # {}

ShapeEntry(t) ==
  LET p == CHOOSE p \in ShapeSplits(t) : TRUE
  IN  [quantity |-> DecimalValue(SubSeq(t, 1, p[1])), name |-> SubSeq(t, p[2], Len(t))]

HasHeadingMarker(t) ==
  \/ (Len(t) >= 1 /\ t[1] = "#")
  \/ (Len(t) >= 2 /\ t[1] = "*" /\ t[2] = "*")

HasCategoryWord(t) ==
  \E i \in 1..Len(CATEGORY_WORDS) : includes(toLowerCase(t), CATEGORY_WORDS[i])

\* What a statement expects of one line: the entries it must contribute, or
\* (open) nothing more than that it contributes at most one.
Exactly(es) == [open |-> FALSE, out |-> es]
Open == [open |-> TRUE, out |-> <<>>]

\* cs is what the lines contribute, line after line, under the expectations.
RECURSIVE Aligned(_, _)
Aligned(exps, cs) ==
  IF Len(exps) = 0 THEN Len(cs) = 0
  ELSE LET h    == exps[1]
           rest == SubSeq(exps, 2, Len(exps))
       IN  IF h.open
           THEN Aligned(rest, cs) \/ (Len(cs) > 0 /\ Aligned(rest, Tail(cs)))
           ELSE IF Len(h.out) = 0 THEN Aligned(rest, cs)
           ELSE Len(cs) > 0 /\ cs[1] = h.out[1] /\ Aligned(rest, Tail(cs))

LinesOf(text) == split(text)

C4_Expected(line) ==
  LET t == trim(line)
  IN  IF HasShape(t) THEN Exactly(<< ShapeEntry(t) >>)
      ELSE IF HasHeadingMarker(t) THEN Exactly(<<>>)
      ELSE IF HasCategoryWord(t) /\ t[1] \notin DigitSet THEN Exactly(<<>>)
      ELSE Open

\* C4: every line of the shape "<int>x <name>" or "<int> <name>" gives
\* exactly one entry, with that integer and the trimmed remainder, also when
\* it contains a category word; a line that starts with a heading marker,
\* and a line that contains a category word and does not start with a digit,
\* give none; the entries come in the order of their lines.
C4_QuantityLines ==
  pc = "parseDeckList" =>
    LET lines == LinesOf(deckText)
    IN  Aligned([i \in 1..Len(lines) |-> C4_Expected(lines[i])], cards)

\* A heading, a quantity line whose name holds a category word, and a
\* quantity line with x, parsed into two entries in that order.
C4_Witness ==
  /\ pc = "parseDeckList"
  /\ LinesOf(deckText) = << LineHeading, LineQtyWordName, LineQtyX >>
  /\ Len(cards) = 2
  /\ cards[1].quantity = 2
  /\ cards[2].quantity = 1

C5_Expected(line) ==
  LET t == trim(line)
  IN  IF \/ Len(t) = 0
         \/ HasHeadingMarker(t)
         \/ (HasCategoryWord(t) /\ t[1] \notin DigitSet)
         \/ HasShape(t)
      THEN Open
      ELSE IF t[1] \notin DigitSet /\ (\A i \in 1..Len(t) : t[i] # ":") /\ Len(t) > 2
           THEN Exactly(<< [quantity |-> 1, name |-> t] >>)
           ELSE Exactly(<<>>)

\* C5: a line that is not blank, markup or a section label and does not
\* match the quantity pattern gives a quantity-1 entry named by the whole
\* trimmed line only if it has no leading integer, no colon and more than 2
\* characters; every other such line gives no entry.
C5_BareNames ==
  pc = "parseDeckList" =>
    LET lines == LinesOf(deckText)
    IN  Aligned([i \in 1..Len(lines) |-> C5_Expected(lines[i])], cards)

\* C6: every entry parseDeckList returns has an integer quantity of at least
\* 1 and a non-empty name.
C6_EntriesWellFormed ==
  pc = "parseDeckList" =>
    \A k \in 1..Len(cards) :
       /\ cards[k].quantity \in Nat
       /\ cards[k].quantity >= 1
       /\ Len(cards[k].name) > 0

\* C7: parseDeckList and validateDeckList return for every text and every
\* options value: there are at most as many entries as lines, none for a
\* text of blanks, and the validation result carries an errors and a
\* warnings list that hold each of its findings.
C7_TotalAndReported ==
  /\ pc = "parseDeckList" =>
        /\ Len(cards) <= Len(LinesOf(deckText))
        /\ (\A i \in 1..Len(deckText) : IsWhiteSpace(deckText[i])) => cards = <<>>
  /\ pc = "validateDeckList" =>
        /\ {"errors", "warnings", "isValid"} \subseteq DOMAIN result
        /\ Len(result.cards) <= Len(LinesOf(deckText))
        /\ result.totalCards = TotalQuantity(result.cards)
        /\ result.totalCards # ExpectedSizeGiven(options)
              => Len(ErrorsOfKind(result, {"short", "over"})) = 1
        /\ \A k \in 1..Len(result.duplicates) :
              \E e \in 1..Len(result.errors) :
                 /\ result.errors[e].kind = "duplicate"
                 /\ result.errors[e].name = result.duplicates[k].name
        /\ result.landCount < (IF "isMonoColor" \in options.given /\ options.isMonoColor
                               THEN 32 ELSE 36) - 5
              => Len(result.warnings) = 1
        /\ result.isValid <=> (Len(result.errors) = 0)

\* The empty text: no entry, and a result that reports the deck as short and
\* as having too few lands.
C7_Witness ==
  /\ pc = "validateDeckList"
  /\ deckText = <<>>
  /\ result.cards = <<>>
  /\ ~result.isValid
  /\ Len(result.errors) = 1
  /\ Len(result.warnings) = 1

\* C11: re-parsing the text formatDeckList makes of a parsed deck gives the
\* same names and the same quantities in the same order as the first parse,
\* also for an entry whose quantity is greater than 1.
C11_RoundTrip ==
  pc = "reparseDeckList" =>
    /\ Len(cards) = Len(prev)
    /\ \A k \in 1..Len(prev) :
          /\ cards[k].name = prev[k].name
          /\ cards[k].quantity = prev[k].quantity

(***************************************************************************)
(* Properties of the rankings (SpecProfile)                                *)
(***************************************************************************)
RECURSIVE Flatten(_)
Flatten(ss) == IF ss = <<>> THEN <<>> ELSE Head(ss) \o Flatten(Tail(ss))

Occurrences(q, x) == Cardinality({ i \in 1..Len(q) : q[i] = x })

\* The commander names of the given decks, in input order; a card without a
\* name counts as 'Unknown'.
CommandersGiven ==
  LET named(cs) == [i \in 1..Len(cs) |-> IF cs[i] = <<>> THEN UnknownCommander ELSE cs[i]]
  IN  Flatten([i \in 1..Len(given) |-> named(given[i].commanders)])

\* The color combinations of the given decks, in input order: the letters
\* of each non-empty colorIdentity in sorted order.
CombosGiven ==
  LET withColors == SelectSeq(given, LAMBDA d : Len(d.colorIdentity) > 0)
  IN  [i \in 1..Len(withColors) |-> SortLetters(withColors[i].colorIdentity)]

\* The formats of the given decks, in input order.
FormatsGiven ==
  [i \in 1..Len(given) |-> IF given[i].format = <<>> THEN UnknownFormat ELSE given[i].format]

\* keys and counts are the two columns of a ranking, occurrences the keys
\* it was counted from.
IsTopRanking(keys, counts, occurrences) ==
  /\ Len(keys) <= 5
  /\ \A i, j \in 1..Len(keys) : keys[i] = keys[j] => i = j
  /\ \A i \in 1..Len(keys) :
        /\ counts[i].isNumber
        /\ counts[i].n = Occurrences(occurrences, keys[i])
        /\ counts[i].n > 0
  /\ \A i, j \in 1..Len(keys) : i < j => counts[i].n >= counts[j].n
  /\ \A o \in 1..Len(occurrences) :
        (\A i \in 1..Len(keys) : keys[i] # occurrences[o]) =>
           \A i \in 1..Len(keys) : Occurrences(occurrences, occurrences[o]) <= counts[i].n

\* C12: topCommanders and topColorCombos hold at most 5 entries, one per
\* distinct key, each with the number of occurrences of its key as count,
\* in non-increasing order of count, and no key left out occurs more often
\* than a listed one.
C12_RankingsExact ==
  pc = "analyzeUserPatterns" =>
    /\ IsTopRanking([i \in 1..Len(patterns.topCommanders) |-> patterns.topCommanders[i].name],
                    [i \in 1..Len(patterns.topCommanders) |-> patterns.topCommanders[i].count],
                    CommandersGiven)
    /\ IsTopRanking([i \in 1..Len(patterns.topColorCombos) |-> patterns.topColorCombos[i].colors],
                    [i \in 1..Len(patterns.topColorCombos) |-> patterns.topColorCombos[i].count],
                    CombosGiven)

\* The letters of W,U,B,R,G that no color combination of the given decks
\* holds, in that order.
AbsentColors ==
  LET used == UNION { { CombosGiven[i][j] : j \in 1..Len(CombosGiven[i]) } :
                      i \in 1..Len(CombosGiven) }
  IN  SelectSeq(AllColors, LAMBDA c : c \notin used)

IsColorAdvice(m) == m.template = "Try exploring ${} colors"

\* C19: the recommendations hold a color recommendation exactly when a
\* letter of W,U,B,R,G is absent from every recorded color combination, it
\* names exactly the absent colors, and the list ends with the two general
\* recommendations.
C19_ColorAdviceExact ==
  pc = "generateRecommendations" =>
    LET n == Len(recommendations)
        advice == SelectSeq(recommendations, IsColorAdvice)
    IN  /\ n >= 2
        /\ recommendations[n - 1] = ArchetypeAdvice
        /\ recommendations[n] = PowerLevelAdvice
        /\ (Len(AbsentColors) > 0) <=> (Len(advice) > 0)
        /\ Len(advice) <= 1
        /\ \A i \in 1..Len(advice) :
              advice[i].value =
                JoinWith([k \in 1..Len(AbsentColors) |-> getColorName[AbsentColors[k]]],
                         <<" ","o","r"," ">>)

(***************************************************************************)
(* Properties of the RecommendationEngine (SpecHistory)                    *)
(***************************************************************************)
FirstIndex(q, x) == CHOOSE i \in 1..Len(q) : q[i] = x /\ \A j \in 1..(i - 1) : q[j] # x

\* The card names of a history, in input order.
CardNamesOf(h) ==
  Flatten([i \in 1..Len(h) |-> [j \in 1..Len(h[i].cards) |-> h[i].cards[j].name]])

\* The truthy values of a string field of a history, in input order.
FieldOf(h, field) ==
  LET present == SelectSeq(h, LAMBDA d : d[field] # <<>>)
  IN  [i \in 1..Len(present) |-> present[i][field]]

\* The color keys of a history, in input order.
ColorKeysOf(h) ==
  LET present == SelectSeq(h, LAMBDA d : d.colors.defined)
  IN  [i \in 1..Len(present) |-> SortLetters(present[i].colors.value)]

\* best is, among the keys of q that occur as often as it, the one that
\* occurs first.
FirstAmongEquals(best, q) ==
  best.defined =>
    \A i \in 1..Len(q) :
       Occurrences(q, q[i]) = Occurrences(q, best.value)
         => FirstIndex(q, best.value) <= FirstIndex(q, q[i])

\* C13: in a ranking, keys with equal counts come in the order of their
\* first occurrence in the input: the staples with equal appearances, and
\* the key getMostCommon picks among those with the same count.
C13_TiesByFirstOccurrence ==
  /\ pc = "identifyStaples" =>
        \A i, j \in 1..Len(result) :
           (i < j /\ result[i].appearances = result[j].appearances) =>
              FirstIndex(CardNamesOf(historyBefore), result[i].name)
                < FirstIndex(CardNamesOf(historyBefore), result[j].name)
  /\ pc = "analyzeHistory" =>
        /\ FirstAmongEquals(result.mostPlayedCommander, FieldOf(historyBefore, "commander"))
        /\ FirstAmongEquals(result.favoriteStrategy, FieldOf(historyBefore, "strategy"))
        /\ FirstAmongEquals(result.favoriteColors, ColorKeysOf(historyBefore))

\* The value a frequency map holds for a key and the greatest of its values.
CountOf(frequencyMap, key) == frequencyMap.vals[OwnIndex(frequencyMap, key)].n

IsFrequencyMap(obj) == \A i \in 1..Len(obj.vals) : obj.vals[i].isNumber

IsMostCommon(best, frequencyMap) ==
  /\ (best = Null) <=> (Len(frequencyMap.keys) = 0)
  /\ (best # Null /\ IsFrequencyMap(frequencyMap)) =>
        /\ HasOwn(frequencyMap, best.value)
        /\ \A i \in 1..Len(frequencyMap.vals) :
              frequencyMap.vals[i].n <= CountOf(frequencyMap, best.value)

C20_HistoryFrame ==
  /\ pc = "addToHistory" =>
        /\ Len(userHistory) = Len(historyBefore) + 1
        /\ SubSeq(userHistory, 1, Len(historyBefore)) = historyBefore
  /\ pc = "clearHistory" => userHistory = <<>>
  /\ pc \in {"analyzeHistory", "identifyStaples", "identifyGaps",
              "engine.generateRecommendations", "suggestNewArchetype",
              "suggestBudgetSubstitutions", "exportHistory"}
        => userHistory = historyBefore

\* C23: identifyStaples returns exactly the card names that occur more than
\* once over the card lists of all history entries, each once, with that
\* number as its appearances, in non-increasing order of appearances.
C23_StaplesExact ==
  pc = "identifyStaples" =>
    LET names == CardNamesOf(historyBefore)
    IN  /\ \A i \in 1..Len(result) :
              /\ Occurrences(names, result[i].name) > 1
              /\ result[i].appearances = Num(Occurrences(names, result[i].name))
        /\ \A i, j \in 1..Len(result) : result[i].name = result[j].name => i = j
        /\ \A k \in 1..Len(names) :
              Occurrences(names, names[k]) > 1 =>
                \E i \in 1..Len(result) : result[i].name = names[k]
        /\ \A i \in 1..(Len(result) - 1) :
              result[i].appearances.n >= result[i + 1].appearances.n

\* The history entries whose card list holds the name.
EntriesWith(h, name) ==
  { i \in 1..Len(h) : \E j \in 1..Len(h[i].cards) : h[i].cards[j].name = name }

\* C26: every card identifyStaples reports appears in at least two distinct
\* history entries; a card listed several times in one deck and in no other
\* is not a staple.
C26_StaplesAcrossDecks ==
  pc = "identifyStaples" =>
    \A i \in 1..Len(result) :
       Cardinality(EntriesWith(historyBefore, result[i].name)) >= 2

\* C24: every bundle generateRecommendations returns has the four buckets,
\* and its budget bucket is not empty: it carries the notice that budget
\* substitution needs pricing data integration.
C24_BudgetNotice ==
  pc = "engine.generateRecommendations" =>
    /\ DOMAIN result = {"buildOnStrengths", "exploreNew", "budgetOptions", "upgrades"}
    /\ Len(result.budgetOptions) > 0
    /\ \E i \in 1..Len(result.budgetOptions) :
          result.budgetOptions[i].note = suggestBudgetSubstitutions(<<>>).note

\* The color letters no deck of the history has, in W,U,B,R,G order, and
\* the archetypes of the fixed list no deck has, in the order of the list.
UnplayedLetters(h) ==
  LET keys == ColorKeysOf(h)
  IN  SelectSeq(AllColors, LAMBDA c :
        \A i \in 1..Len(keys) : \A j \in 1..Len(keys[i]) : keys[i][j] # c)

UnplayedArchetypes(h) ==
  LET played == FieldOf(h, "strategy")
  IN  SelectSeq(commonStrategies, LAMBDA a : \A i \in 1..Len(played) : played[i] # a)

FirstThreeLetters(h) ==
  JoinWith([i \in 1..Len(Slice(UnplayedLetters(h), 3)) |-> <<UnplayedLetters(h)[i]>>],
           CommaSpace)

FirstThreeArchetypes(h) == JoinWith(Slice(UnplayedArchetypes(h), 3), CommaSpace)

ColorGapsBounded ==
  \A i \in 1..Len(result) :
     result[i].type = "colors" =>
       /\ UnplayedLetters(historyBefore) # <<>>
       /\ result[i].description.value = FirstThreeLetters(historyBefore)

ArchetypeGapsBounded ==
  \A i \in 1..Len(result) :
     result[i].type = "strategies" =>
       /\ UnplayedArchetypes(historyBefore) # <<>>
       /\ result[i].description.value = FirstThreeArchetypes(historyBefore)

\* C25: identifyGaps names at most the first 3 unplayed color letters and at
\* most the first 3 unplayed archetypes, and has no gap entry for a kind in
\* which nothing is unplayed.
C25_GapsBounded ==
  pc = "identifyGaps" => ColorGapsBounded /\ ArchetypeGapsBounded

(***************************************************************************)
(* Properties of the MetaAnalyzer (SpecMeta)                               *)
(***************************************************************************)
\* C15: trends.popular is the names, in input order, of the records that
\* are among the first 3 of the list, whatever their share.
C15_PopularFirstThree ==
  pc = "identifyTrends" =>
    result.popular = [i \in 1..Min(3, Len(metaDecks)) |-> metaDecks[i].name]

\* A share text without its surrounding white space and its '%' suffix.
NormalizedShare(s) ==
  LET t == trim(s)
  IN  IF t # <<>> /\ t[Len(t)] = "%" THEN trim(SubSeq(t, 1, Len(t) - 1)) ELSE t

Unsigned(u) == IF u # <<>> /\ u[1] \in {"+", "-"} THEN Tail(u) ELSE u

\* u is a decimal numeral: a sign or none, digits, at most one point, and
\* nothing else.
IsNumeral(u) ==
  LET body == Unsigned(u)
  IN  /\ \E i \in 1..Len(body) : IsDigit(body[i])
      /\ \A i \in 1..Len(body) : IsDigit(body[i]) \/ body[i] = "."
      /\ Cardinality({ i \in 1..Len(body) : body[i] = "." }) <= 1

\* The numeral u denotes a number above 0 and below 5.
BetweenZeroAndFive(u) ==
  LET body == Unsigned(u)
      whole == LeadingDigits(body)
  IN  /\ u[1] # "-"
      /\ \E i \in 1..Len(body) : IsDigit(body[i]) /\ body[i] # "0"
      /\ DecimalValue(whole) < 5

ShouldEmerge(d) ==
  LET u == NormalizedShare(d.metaShare)
  IN  IsNumeral(u) /\ BetweenZeroAndFive(u)

\* C16: trends.emerging is the names, in input order, of the first 3
\* records whose share, without its '%' suffix and surrounding white space,
\* is a number above 0 and below 5; a record with an absent, non-numeric,
\* zero, negative or larger share is not among them.
C16_EmergingExact ==
  pc = "identifyTrends" =>
    result.emerging = NamesOf(Slice(SelectSeq(metaDecks, ShouldEmerge), 3))

\* C17: the summary of a non-empty list is the analyzed-count line, the
\* most-played line with the first record's name and raw metaShare, and
\* the top-3 remark exactly when there are 3 or more records; the summary
\* of the empty list is the two explanatory lines.
C17_SummaryLines ==
  pc = "generateMetaSummary" =>
    LET n == Len(metaDecks)
    IN  /\ n = 0 =>
              /\ Len(result) = 2
              /\ result[1].template = "Unable to fetch current meta data"
              /\ result[2].template = "Meta analysis requires web scraping which may be limited"
        /\ n > 0 =>
              /\ Len(result) = (IF n >= 3 THEN 3 ELSE 2)
              /\ result[1].template = "Analyzed ${} meta decks"
              /\ result[1].count = n
              /\ result[2].template = "Most played: ${} (${} of meta)"
              /\ result[2].name = metaDecks[1].name
              /\ result[2].metaShare = metaDecks[1].metaShare
              /\ n >= 3 => result[3].template = "Top 3 strategies dominate the format"

\* The summary of a list of exactly 3 records, with the remark.
C17_Witness ==
  /\ pc = "generateMetaSummary"
  /\ Len(metaDecks) = 3
  /\ Len(result) = 3
  /\ result[1].count = 3
  /\ result[2].metaShare = <<"4", "%">>
  /\ result[3].template = "Top 3 strategies dominate the format"

(***************************************************************************)
(* Properties of the analyzers over the network (SpecNet)                  *)
(***************************************************************************)
SomeRequestFailed == \E i \in 1..Len(network) : network[i].kind # "ok"

NoRequestRepeated ==
  \A i, j \in 1..Len(network) :
    network[i].path = network[j].path /\ network[i].id = network[j].id => i = j

\* C18: whenever a request to a network collaborator fails (fetch rejected
\* or a status outside 2xx) during analyzeMoxfieldProfile,
\* analyzeMTGGoldfishProfile or analyzeFormat, the call ends with a thrown
\* error wrapping the failure, never with an analysis, and no request is
\* issued a second time.
C18_FailurePropagates ==
  pc \in {"analyzeFormat", "analyzeMoxfieldProfile", "analyzeMTGGoldfishProfile"} =>
    /\ NoRequestRepeated
    /\ SomeRequestFailed => result.thrown /\ Len(result.error) > 0

(***************************************************************************)
(* Properties of the imports (SpecHistory, SpecKnowledge)                  *)
(***************************************************************************)
\* C21: importHistory raises an explicit error when its argument is
\* malformed JSON, and also when it is well-formed JSON whose value is not
\* an array.
C21_ImportHistoryRaises ==
  [][\A json \in ImportTexts :
       ImportHistory(json) /\ json.kind # "array" => result'.thrown # ""]_vars

\* C22: importKnowledge, given well-formed JSON whose value is not an
\* array, does not raise: it sets the knowledge base to the empty list.
C22_ImportKnowledgeCoerces ==
  [][\A json \in KnowledgeTexts :
       ImportKnowledge(json) /\ json.kind = "other" =>
         result'.thrown = "" /\ knowledgeBase' = <<>>]_vars

\* C29: when importHistory or importKnowledge raises, the history list
\* (respectively the knowledge base) holds exactly the entries it held
\* before the call.
C29_RaisingImportKeepsState ==
  /\ pc = "importHistory" /\ result.thrown # "" => userHistory = historyBefore
  /\ pc = "importKnowledge" /\ result.thrown # "" => knowledgeBase = knowledgeBefore

\* importKnowledge has raised on a knowledge base of two entries, after an
\* import into a history that held entries.
C29_Witness ==
  /\ pc = "importKnowledge"
  /\ result.thrown # ""
  /\ Len(knowledgeBefore) = 2
  /\ Len(userHistory) > 0

(***************************************************************************)
(* Further properties of the MetaAnalyzer (SpecMeta)                       *)
(***************************************************************************)
\* C27: for every list of meta-deck records, trends.declining returned by
\* identifyTrends is empty.
C27_DecliningEmpty == pc = "identifyTrends" => result.declining = <<>>

\* identifyTrends has classified a list of four records, the last with a
\* share that is not low, and declining is empty.
C27_Witness ==
  /\ pc = "identifyTrends"
  /\ Len(metaDecks) = 4
  /\ ~IsLowShare(metaDecks[4])
  /\ Len(result.popular) = 3
  /\ Len(result.emerging) > 0
  /\ result.declining = <<>>

(***************************************************************************)
(* validateParsedDeck after removeDuplicates (SpecDeck)                    *)
(***************************************************************************)
\* C30: for every parsed deck d, validateParsedDeck(removeDuplicates(d))
\* reports no duplicate: duplicates is empty, hasDuplicates is false and
\* errors holds no duplicate error.
C30_NoDuplicateAfterRemoval ==
  pc = "validateParsedDeck" /\ calls > 0 =>
    /\ result.duplicates = <<>>
    /\ ~result.hasDuplicates
    /\ ErrorsOfKind(result, {"duplicate"}) = <<>>

\* validateParsedDeck has run on the list removeDuplicates made of a deck
\* that held a non-basic name more than once, in different letter case or
\* with a quantity above 1.
C30_Witness ==
  /\ pc = "validateParsedDeck"
  /\ calls = 1
  /\ RepeatedNames(deck) # {}
  /\ Len(cards) < Len(deck)
  /\ result.duplicates = <<>>

(***************************************************************************)
(* Properties of the rate limiter (SpecLimiter)                            *)
(***************************************************************************)
\* C28: any two requests of an integration instance go out at least the
\* instance's rate-limit interval apart, in every interleaving of request
\* calls, overlapping calls included.
C28_RequestsPaced ==
  \A i, j \in 1..Len(issued) :
     i < j => issued[j] - issued[i] >= rateLimit[instance]

=========================================================================
